---------------------------- MODULE Spec2Model ----------------------------
(***************************************************************************)
(* Model of the API client layer of pw-poc-tna: BaseApi (envelope          *)
(* unwrapping, error raising, optional schema validation), the UsersApi    *)
(* resource client (register, login), the Zod schemata they use and the    *)
(* Playwright fixtures built on them.                                      *)
(*                                                                         *)
(* JavaScript values are tagged records.  A JavaScript string is a         *)
(* sequence of one-character strings, so that length and e-mail checks     *)
(* are computed on the characters.                                         *)
(***************************************************************************)
EXTENDS Integers, Sequences, FiniteSets, TLC

VARIABLES
    pc,         \* "idle": no call made yet in this test; "settled": the awaited call settled
    call,       \* the call that was made and what the server answered to it
    outcome,    \* how the awaited promise settled: returned value or thrown error
    requests,   \* the HTTP requests issued through the APIRequestContext, in order
    now,        \* Date.now(), the clock shared by the workers of one machine
    fx,         \* per worker: the userProfile fixture of the test it is running
    ap,         \* per worker: the authenticatedPage fixture of the test it is running
    gen,        \* the values the unique-data helpers have returned, in order
    reporter,   \* the XrayJUnitReporter: suite, collected results, file written
    ci,         \* a CI run: its trigger, the tests selected, running and executed
    a11y,       \* the last call of an accessibility helper: its input and how it ended
    built,      \* the payload a test built with UserBuilder and what register did with it
    ui          \* a test that drives the login page: the page and what was done on it

vars == <<pc, call, outcome, requests, now, fx, ap, gen, reporter, ci, a11y, built, ui>>

---------------------------------------------------------------------------
(* Bounds *)

\* Nesting depth of `data` envelopes in the response bodies that are enumerated.
MaxDepth == 2

\* Last value of the millisecond clock that is explored.
MaxClock == 2

\* Number of results (first run and retries) one test reports at most.
MaxResults == 2

\* Number of violations one accessibility scan reports at most.
MaxViolations == 2

\* Number of calls of the unique-data helpers that is explored.
MaxCalls == 3

\* workers: process.env.CI ? 2 : 8
NumWorkers == 2

---------------------------------------------------------------------------
(* JavaScript values *)

Undef == [t |-> "undefined"]
Null == [t |-> "null"]
Str(s) == [t |-> "string", s |-> s]
Num(n) == [t |-> "number", n |-> n]
Bool(b) == [t |-> "boolean", b |-> b]
Arr(a) == [t |-> "array", a |-> a]
Obj(f) == [t |-> "object", f |-> f]

\* An object literal given by a function whose Undef entries are absent keys.
MkObj(g) == Obj([k \in {k \in DOMAIN g : g[k] # Undef} |-> g[k]])

\* Conversion to boolean (the operand of `&&`, `||`, Boolean()).
Truthy(v) ==
    CASE v.t = "undefined" -> FALSE
      [] v.t = "null" -> FALSE
      [] v.t = "string" -> Len(v.s) > 0
      [] v.t = "number" -> v.n # 0
      [] v.t = "boolean" -> v.b
      [] OTHER -> TRUE

\* typeof v === 'object' (true of null and of arrays as well).
TypeofObject(v) == v.t \in {"object", "array", "null"}

\* key in v, for a non-null v of typeof 'object'.
In(key, v) == v.t = "object" /\ key \in DOMAIN v.f

\* v?.key : undefined on null and undefined, and on values without the key.
Prop(v, key) == IF In(key, v) THEN v.f[key] ELSE Undef

IsNullish(v) == v.t \in {"undefined", "null"}

\* a ?? b
Coalesce(a, b) == IF IsNullish(a) THEN b ELSE a

---------------------------------------------------------------------------
(* Characters and strings *)

Chars(str) ==
    CASE str = "" -> <<>>
      [] str = "null" -> <<"n", "u", "l", "l">>
      [] str = "true" -> <<"t", "r", "u", "e">>
      [] str = "false" -> <<"f", "a", "l", "s", "e">>
      [] str = "data" -> <<"d", "a", "t", "a">>
      [] str = "token" -> <<"t", "o", "k", "e", "n">>
      [] str = "id" -> <<"i", "d">>
      [] str = "name" -> <<"n", "a", "m", "e">>
      [] str = "email" -> <<"e", "m", "a", "i", "l">>
      [] str = "message" -> <<"m", "e", "s", "s", "a", "g", "e">>

Letters == {"a", "b", "c", "d", "e", "f", "g", "h", "i", "j", "k", "l", "m",
            "n", "o", "p", "q", "r", "s", "t", "u", "v", "w", "x", "y", "z",
            "A", "B", "T", "U"}
Digits == {"0", "1", "2", "3", "4", "5", "6", "7", "8", "9"}
Whitespace == {" "}

DigitChar(n) == <<"0", "1", "2", "3", "4", "5", "6", "7", "8", "9">>[n + 1]

\* `${n}` for a non-negative integer n: its decimal digits.
RECURSIVE Decimal(_)
Decimal(n) == IF n < 10 THEN <<DigitChar(n)>> ELSE Decimal(n \div 10) \o <<DigitChar(n % 10)>>

\* The characters of a string literal.
Text(str) == [i \in 1..Len(str) |-> SubSeq(str, i, i)]

RECURSIVE Flatten(_)
Flatten(ss) == IF ss = <<>> THEN <<>> ELSE Head(ss) \o Flatten(Tail(ss))

\* The order in which a serialised object lists its keys.
KeyOrder == <<"data", "token", "id", "name", "email", "message">>

\* JSON.stringify: the text the server sent for a JSON value.
RECURSIVE Stringify(_)
Stringify(v) ==
    CASE v.t = "null" -> Chars("null")
      [] v.t = "boolean" -> IF v.b THEN Chars("true") ELSE Chars("false")
      [] v.t = "number" -> <<DigitChar(v.n)>>
      [] v.t = "string" -> <<"\"">> \o v.s \o <<"\"">>
      [] v.t = "array" ->
            <<"[">> \o Flatten([i \in 1..Len(v.a) |->
                (IF i > 1 THEN <<",">> ELSE <<>>) \o Stringify(v.a[i])]) \o <<"]">>
      [] v.t = "object" ->
            LET keys == SelectSeq(KeyOrder, LAMBDA k : k \in DOMAIN v.f)
            IN <<"{">> \o Flatten([i \in 1..Len(keys) |->
                (IF i > 1 THEN <<",">> ELSE <<>>)
                    \o <<"\"">> \o Chars(keys[i]) \o <<"\"", ":">>
                    \o Stringify(v.f[keys[i]])]) \o <<"}">>

---------------------------------------------------------------------------
(* HTTP responses *)

\* The text of a response: empty, text that is not JSON, or the JSON text of a value.
EmptyText == [k |-> "empty"]
RawText(s) == [k |-> "raw", s |-> s]
JsonText(v) == [k |-> "json", v |-> v]

\* await response.text()
TextOf(text) ==
    CASE text.k = "empty" -> Str(<<>>)
      [] text.k = "raw" -> Str(text.s)
      [] text.k = "json" -> Str(Stringify(text.v))

---------------------------------------------------------------------------
(* Zod schemata *)

CountOf(s, c) == Cardinality({i \in 1..Len(s) : s[i] = c})
AtIndex(s) == CHOOSE i \in 1..Len(s) : s[i] = "@"
LocalPart(s) == SubSeq(s, 1, AtIndex(s) - 1)
DomainPart(s) == SubSeq(s, AtIndex(s) + 1, Len(s))

\* /^[^\s@]+@[^\s@]+\.[^\s@]+$/
EmailRegex(s) ==
    /\ \A i \in 1..Len(s) : s[i] \notin Whitespace
    /\ CountOf(s, "@") = 1
    /\ Len(LocalPart(s)) >= 1
    /\ \E i \in 2..(Len(DomainPart(s)) - 1) : DomainPart(s)[i] = "."

\* z.string().email():
\* /^(?!\.)(?!.*\.\.)([A-Z0-9_'+\-\.]*)[A-Z0-9_+-]@([A-Z0-9][A-Z0-9\-]*\.)+[A-Z]{2,}$/i
ZodEmail(s) ==
    /\ CountOf(s, "@") = 1
    /\ s[1] # "."
    /\ \A i \in 1..(Len(s) - 1) : ~(s[i] = "." /\ s[i + 1] = ".")
    /\ LET local == LocalPart(s)
           domain == DomainPart(s)
           dots == {i \in 1..Len(domain) : domain[i] = "."}
       IN /\ Len(local) >= 1
          /\ \A i \in 1..Len(local) : local[i] \in Letters \cup Digits \cup {"_", "'", "+", "-", "."}
          /\ local[Len(local)] # "."
          /\ local[Len(local)] # "'"
          /\ \A i \in 1..Len(domain) : domain[i] \in Letters \cup Digits \cup {"-", "."}
          /\ dots # {}
          /\ Len(domain) >= 1
          /\ domain[1] \in Letters \cup Digits
          /\ \A i \in dots : i < Len(domain) /\ domain[i + 1] \in Letters \cup Digits
          /\ LET last == CHOOSE i \in dots : \A j \in dots : j <= i
             IN /\ Len(domain) - last >= 2
                /\ \A i \in (last + 1)..Len(domain) : domain[i] \in Letters

\* z.string()
ZString(v) == v.t = "string"
\* z.string().min(n)
ZStringMin(v, n) == ZString(v) /\ Len(v.s) >= n
\* z.string().email()
ZStringEmail(v) == ZString(v) /\ ZodEmail(v.s)
\* z.union([z.string(), z.number()])
ZStringOrNumber(v) == v.t \in {"string", "number"}
\* z.object({...}): an object that is neither null nor an array
ZObject(v) == v.t = "object"

\* Mutant of RegisterUserRequestSchema: email is only required to be a string.
RegisterUserRequestSchemaAnyEmail(v) ==
    /\ ZObject(v)
    /\ ZStringMin(Prop(v, "name"), 1)
    /\ ZString(Prop(v, "email"))
    /\ ZStringMin(Prop(v, "password"), 6)

\* RegisterUserRequestSchema.parse(user) succeeds
RegisterUserRequestSchema(v) ==
    /\ ZObject(v)
    /\ ZStringMin(Prop(v, "name"), 1)
    /\ ZStringEmail(Prop(v, "email"))
    /\ ZStringMin(Prop(v, "password"), 6)

\* The fields of a register request that RegisterUserRequestSchema reports as invalid.
RegisterUserRequestIssues(v) ==
    {field \in {"name", "email", "password"} :
        CASE field = "name" -> ~ZStringMin(Prop(v, "name"), 1)
          [] field = "email" -> ~ZStringEmail(Prop(v, "email"))
          [] field = "password" -> ~ZStringMin(Prop(v, "password"), 6)}

\* LoginRequestSchema.parse({ email, password }) succeeds
LoginRequestSchema(v) ==
    /\ ZObject(v)
    /\ ZString(Prop(v, "email")) /\ EmailRegex(Prop(v, "email").s)
    /\ ZStringMin(Prop(v, "password"), 1)

\* The shape { id?, name?, email? } that RegisterResponseSchema uses at both levels.
RegisterFields(v) ==
    /\ Prop(v, "id") = Undef \/ ZStringOrNumber(Prop(v, "id"))
    /\ Prop(v, "name") = Undef \/ ZString(Prop(v, "name"))
    /\ Prop(v, "email") = Undef \/ ZStringEmail(Prop(v, "email"))

\* RegisterResponseSchema.parse(v) succeeds; unknown keys pass through.
RegisterResponseSchema(v) ==
    /\ ZObject(v)
    /\ Prop(v, "data") = Undef \/ (ZObject(Prop(v, "data")) /\ RegisterFields(Prop(v, "data")))
    /\ RegisterFields(v)

\* LoginResponseSchema.parse(v) succeeds; unknown keys pass through.
LoginResponseSchema(v) ==
    /\ ZObject(v)
    /\ Prop(v, "data") = Undef
          \/ (ZObject(Prop(v, "data")) /\ ZString(Prop(Prop(v, "data"), "token")))
    /\ Prop(v, "token") = Undef \/ ZString(Prop(v, "token"))
    /\ Truthy(Prop(Prop(v, "data"), "token")) \/ Truthy(Prop(v, "token"))

\* ValidationErrorSchema.parse(v) succeeds
ValidationErrorSchema(v) ==
    /\ ZObject(v)
    /\ Prop(v, "field") = Undef \/ ZString(Prop(v, "field"))
    /\ ZString(Prop(v, "message"))
    /\ Prop(v, "code") = Undef \/ ZString(Prop(v, "code"))

\* ApiErrorResponseSchema.parse(v) succeeds: the envelope with its metadata, `data`
\* being z.any().optional(); unknown keys pass through.
ApiErrorResponseSchema(v) ==
    /\ ZObject(v)
    /\ ZString(Prop(v, "message"))
    /\ Prop(v, "error") = Undef \/ ZString(Prop(v, "error"))
    /\ Prop(v, "errors") = Undef
          \/ (Prop(v, "errors").t = "array"
                /\ \A i \in 1..Len(Prop(v, "errors").a) :
                      ValidationErrorSchema(Prop(v, "errors").a[i]))
    /\ Prop(v, "status") = Undef \/ Prop(v, "status").t = "number"

\* The schema argument of a BaseApi call: absent, one of the response schemata, or
\* the schema of the envelope with its metadata.
Schemas == {"none", "RegisterResponseSchema", "LoginResponseSchema", "ApiErrorResponseSchema"}

\* schema.parse(v) succeeds
SchemaAccepts(schema, v) ==
    CASE schema = "RegisterResponseSchema" -> RegisterResponseSchema(v)
      [] schema = "LoginResponseSchema" -> LoginResponseSchema(v)
      [] schema = "ApiErrorResponseSchema" -> ApiErrorResponseSchema(v)

---------------------------------------------------------------------------
(* Errors and settled promises *)

\* new ApiError(message, status, body)
ApiError(status, body) == [type |-> "ApiError", status |-> status, body |-> body]
\* The ZodError that schema.parse throws.
ZodError == [type |-> "ZodError", status |-> Undef, body |-> Undef]
\* The Error with which APIRequestContext rejects when no response arrives.
TransportError == [type |-> "Error", status |-> Undef, body |-> Undef]
NoError == [type |-> "none", status |-> Undef, body |-> Undef]

Returned(v) == [kind |-> "returned", value |-> v, err |-> NoError]
Threw(e) == [kind |-> "threw", value |-> Undef, err |-> e]
Pending == [kind |-> "pending", value |-> Undef, err |-> NoError]

---------------------------------------------------------------------------
(* BaseApi *)

\* Mutant of ParseBody: the catch leaves body undefined.
ParseBodyDroppingText(text) ==
    IF ~Truthy(TextOf(text)) THEN Undef
    ELSE IF text.k = "json" THEN text.v
    ELSE Undef

\* body = text ? JSON.parse(text) : undefined, and body = text when JSON.parse throws
ParseBody(text) ==
    IF ~Truthy(TextOf(text)) THEN Undef
    ELSE IF text.k = "json" THEN text.v
    ELSE TextOf(text)

\* status >= 400
IsErrorStatus(status) == status >= 400

\* Mutant of ErrorBody: the fallback to the raw text is dropped.
ErrorBodyWithoutText(body, text) == body

\* body ?? text, the body given to the ApiError
ErrorBody(body, text) == Coalesce(body, TextOf(text))

\* Mutant of Unwrap: body?.data ?? body, which skips a `data` that is null.
UnwrapNullish(body) == Coalesce(Prop(body, "data"), body)

\* body && typeof body === 'object' && 'data' in body ? body.data : body
Unwrap(body) ==
    IF Truthy(body) /\ TypeofObject(body) /\ In("data", body) THEN body.f["data"] ELSE body

\* Mutant of Validated: the schema is applied to the whole body.
ValidatedWholeBody(payload, body) == body

\* payload ?? body, the value given to schema.parse
Validated(payload, body) == Coalesce(payload, body)

\* BaseApi.parseAndValidate(response, schema)
ParseAndValidate(status, text, schema) ==
    LET body == ParseBody(text)
        payload == Unwrap(body)
    IN IF IsErrorStatus(status) THEN Threw(ApiError(Num(status), ErrorBody(body, text)))
       ELSE IF schema # "none" /\ ~SchemaAccepts(schema, Validated(payload, body))
            THEN Threw(ZodError)
       ELSE Returned(payload)

\* BaseApi.get / post / patch / delete: the request, then parseAndValidate.
\* net = "fail": the request itself rejects (no response).
BaseCall(net, status, text, schema) ==
    IF net = "fail" THEN Threw(TransportError) ELSE ParseAndValidate(status, text, schema)

---------------------------------------------------------------------------
(* UsersApi *)

RegisterPath == "/notes/api/users/register"
LoginPath == "/notes/api/users/login"

PostRequest(path) == [method |-> "POST", path |-> path]

\* try { ... } catch (err) { if (err instanceof ApiError) throw err;
\*                           throw new ApiError(String(err)); }
Rethrow(err) == IF err.type = "ApiError" THEN err ELSE ApiError(Undef, Undef)

\* return data ?? {}
RegisterResult(data) == Coalesce(data, Obj(<<>>))

\* Mutant of LoginResult: the token nested under `data` is looked up first.
LoginResultNestedFirst(data) ==
    Coalesce(Prop(Prop(data, "data"), "token"), Prop(data, "token"))

\* return data?.token ?? data?.data?.token ?? data?.token
LoginResult(data) ==
    Coalesce(Coalesce(Prop(data, "token"), Prop(Prop(data, "data"), "token")),
             Prop(data, "token"))

\* Mutant of UsersRegister: the payload of an unvalidated post is returned as it is.
UsersRegisterUnchecked(user, net, status, text) ==
    IF ~RegisterUserRequestSchema(user)
    THEN [outcome |-> Threw(ZodError), sent |-> <<>>]
    ELSE LET r == BaseCall(net, status, text, "none")
         IN [outcome |-> IF r.kind = "returned" THEN r ELSE Threw(Rethrow(r.err)),
             sent |-> <<PostRequest(RegisterPath)>>]

\* UsersApi.register(user), the server answering (net, status, text) if it is asked.
\* sent: the HTTP requests the call issues.
UsersRegister(user, net, status, text) ==
    IF ~RegisterUserRequestSchema(user)
    THEN [outcome |-> Threw(ZodError), sent |-> <<>>]
    ELSE LET r == BaseCall(net, status, text, "RegisterResponseSchema")
         IN [outcome |-> IF r.kind = "returned" THEN Returned(RegisterResult(r.value))
                         ELSE Threw(Rethrow(r.err)),
             sent |-> <<PostRequest(RegisterPath)>>]

\* UsersApi.login(email, password), the server answering (net, status, text) if asked.
UsersLogin(email, password, net, status, text) ==
    IF ~LoginRequestSchema(Obj([email |-> email, password |-> password]))
    THEN [outcome |-> Threw(ZodError), sent |-> <<>>]
    ELSE LET r == BaseCall(net, status, text, "LoginResponseSchema")
         IN [outcome |-> IF r.kind = "returned" THEN Returned(LoginResult(r.value))
                         ELSE Threw(Rethrow(r.err)),
             sent |-> <<PostRequest(LoginPath)>>]

---------------------------------------------------------------------------
(* The inputs that are enumerated *)

Statuses == {200, 201, 302, 304, 400, 401, 500}

TokenA == Str(<<"A">>)
TokenB == Str(<<"B">>)
EmptyString == Str(<<>>)

NotAnEmail == Str(<<"n", "o", "t", "-", "a", "n", "-", "e", "m", "a", "i", "l">>)
ShortTldEmail == Str(<<"a", "@", "b", ".", "c">>)
ValidEmail == Str(<<"a", "@", "b", ".", "c", "o">>)

\* Values a `token` key may hold; Undef: the key is absent.
TokenOpts == {Undef, Null, EmptyString, TokenA, TokenB}
\* Values a nested `data` key may hold besides an object; Undef: the key is absent.
DataOpts == {Undef, Null, Num(0)}

\* Login-shaped objects with `data` envelopes nested at most d deep.
RECURSIVE LoginObjs(_)
LoginObjs(d) ==
    { MkObj([token |-> tk, data |-> dt]) :
        tk \in TokenOpts,
        dt \in DataOpts \cup (IF d = 0 THEN {} ELSE LoginObjs(d - 1)) }

\* Registration-shaped objects with `data` envelopes nested at most d deep.
RECURSIVE RegisterObjs(_)
RegisterObjs(d) ==
    { MkObj([id |-> i, email |-> e, data |-> dt]) :
        i \in {Undef, Num(7), Bool(TRUE)},
        e \in {Undef, ValidEmail, NotAnEmail},
        dt \in DataOpts \cup (IF d <= 0 THEN {} ELSE RegisterObjs(d - 1)) }

\* Bodies that are not objects.
Scalars ==
    {Null, Bool(FALSE), Num(0), Num(7), EmptyString, Str(<<"o", "k">>),
     Arr(<<>>), Arr(<<Num(7)>>)}

\* The envelope metadata `message` added to an object.
WithMessage(o) == Obj([k \in DOMAIN o.f \cup {"message"} |->
                        IF k = "message" THEN Str(<<"o", "k">>) ELSE o.f[k]])

\* A `name` key added to an object.
WithName(o, n) == Obj([k \in DOMAIN o.f \cup {"name"} |-> IF k = "name" THEN n ELSE o.f[k]])

NonJsonTexts == {EmptyText, RawText(<<"<", "h", "t", "m", "l", ">">>)}

AsTexts(values) == NonJsonTexts \cup {JsonText(v) : v \in values}

LoginTexts ==
    AsTexts(Scalars \cup LoginObjs(MaxDepth) \cup {WithMessage(o) : o \in LoginObjs(MaxDepth)})

RegisterTexts ==
    AsTexts(Scalars \cup RegisterObjs(MaxDepth - 1)
        \cup {WithName(o, n) : o \in RegisterObjs(MaxDepth - 1), n \in {Str(<<"T">>), Num(0)}})

BaseTexts ==
    AsTexts(Scalars \cup LoginObjs(MaxDepth - 1) \cup RegisterObjs(MaxDepth - 2)
        \cup {WithMessage(o) : o \in LoginObjs(0)})

\* The arguments tests pass to register: each field missing, invalid or valid.
Users ==
    { MkObj([name |-> n, email |-> e, password |-> p]) :
        n \in {Undef, EmptyString, Str(<<"T">>)},
        e \in {Undef, NotAnEmail, ShortTldEmail, ValidEmail},
        p \in {Undef, Str(<<"1", "2", "3", "4", "5">>), Str(<<"1", "2", "3", "4", "5", "6">>)} }

LoginEmails == {NotAnEmail, ShortTldEmail, ValidEmail}
LoginPasswords == {EmptyString, Str(<<"p">>)}

---------------------------------------------------------------------------
(* The state machine: one test makes one awaited call *)

NoCall == [op |-> "none", net |-> "none", status |-> 0, text |-> EmptyText,
           schema |-> "none", arg |-> Undef]

Workers == 0..(NumWorkers - 1)

\* A worker between tests: no fixture set up.
NoFixture ==
    [pc |-> "idle", user |-> Undef, registerArg |-> Undef, registerOutcome |-> Pending,
     loginArg |-> Undef, loginOutcome |-> Pending, handed |-> Undef, events |-> <<>>]

\* A fresh page before a login test: nothing loaded, nothing done on the form.
NoLoginUi ==
    [pc |-> "idle", test |-> "none", email |-> <<>>, password |-> <<>>,
     rememberMe |-> FALSE, checkboxVisible |-> FALSE, url |-> "about:blank",
     errorShown |-> FALSE, events |-> <<>>, login |-> "none", hasError |-> Undef,
     verdict |-> "none"]

\* No payload has been built in this test.
NothingBuilt ==
    [op |-> "none", field |-> "", overrides |-> {}, payload |-> Undef,
     registered |-> FALSE, outcome |-> Pending, sent |-> <<>>]

\* No accessibility helper has been called in this test.
NoCheck ==
    [op |-> "none", scanned |-> FALSE, violations |-> <<>>, critical |-> <<>>,
     result |-> "pending"]

\* No CI run is under way.
NoRun ==
    [phase |-> "idle", trigger |-> "none", queue |-> <<>>,
     running |-> [w \in Workers |-> 0], executed |-> {}]

\* The reporter after construction: no config and suite yet, results = new Map(),
\* nothing written.
NewReporter ==
    [phase |-> "new", rootDir |-> <<>>, suites |-> <<>>, results |-> <<>>,
     written |-> FALSE, file |-> <<>>]

\* A worker between tests: the page fixture is not set up and the browser context
\* of the next test is fresh.
NoPage ==
    [pc |-> "idle", token |-> Undef, cookies |-> <<>>, url |-> "about:blank",
     loggedIn |-> FALSE, handed |-> FALSE, events |-> <<>>]

Init ==
    /\ pc = "idle"
    /\ call = NoCall
    /\ outcome = Pending
    /\ requests = <<>>
    /\ now = 0
    /\ fx = [w \in Workers |-> NoFixture]
    /\ ap = [w \in Workers |-> NoPage]
    /\ gen = <<>>
    /\ reporter = NewReporter
    /\ ci = NoRun
    /\ a11y = NoCheck
    /\ built = NothingBuilt
    /\ ui = NoLoginUi

fxVars == <<now, fx>>
apiVars == <<pc, call, outcome, requests>>
pageVars == <<ap>>
genVars == <<gen>>
reporterVars == <<reporter>>
ciVars == <<ci>>
a11yVars == <<a11y>>
builderVars == <<built>>
uiVars == <<ui>>

\* What the actions of one part of the program leave alone.
notApiVars == <<fxVars, pageVars, genVars, reporterVars, ciVars, a11yVars, builderVars, uiVars>>
notFxVars == <<apiVars, pageVars, genVars, reporterVars, ciVars, a11yVars, builderVars, uiVars>>
notPageVars == <<apiVars, fxVars, genVars, reporterVars, ciVars, a11yVars, builderVars, uiVars>>
notGenVars == <<apiVars, fx, pageVars, reporterVars, ciVars, a11yVars, builderVars, uiVars>>
notReporterVars == <<apiVars, fxVars, pageVars, genVars, ciVars, a11yVars, builderVars, uiVars>>
notCiVars == <<apiVars, fxVars, pageVars, genVars, reporterVars, a11yVars, builderVars, uiVars>>
notA11yVars == <<apiVars, fxVars, pageVars, genVars, reporterVars, ciVars, builderVars, uiVars>>
notBuilderVars == <<apiVars, fx, pageVars, genVars, reporterVars, ciVars, a11yVars, uiVars>>
notUiVars == <<apiVars, fxVars, pageVars, genVars, reporterVars, ciVars, a11yVars, builderVars>>

\* What the server may answer to a request: no response at all, or a status and a text.
AnswersWith(statuses, texts) ==
    {[net |-> "fail", status |-> 0, text |-> EmptyText]}
        \cup {[net |-> "ok", status |-> st, text |-> tx] : st \in statuses, tx \in texts}

Answers(texts) == AnswersWith(Statuses, texts)

\* No request is sent, so nothing answers.
NoAnswer == [net |-> "none", status |-> 0, text |-> EmptyText]

\* One of BaseApi's four methods, called from a test.
BaseMethod(op, method) ==
    /\ pc = "idle"
    /\ \E a \in Answers(BaseTexts), schema \in Schemas :
         /\ call' = [op |-> op, net |-> a.net, status |-> a.status, text |-> a.text,
                     schema |-> schema, arg |-> Undef]
         /\ outcome' = BaseCall(a.net, a.status, a.text, schema)
         /\ requests' = Append(requests, [method |-> method, path |-> RegisterPath])
    /\ pc' = "settled"
    /\ UNCHANGED notApiVars

Get == BaseMethod("get", "GET")
Post == BaseMethod("post", "POST")
Patch == BaseMethod("patch", "PATCH")
Delete == BaseMethod("delete", "DELETE")

\* The calls of register a test may make, with the answer when a request is sent.
RegisterCalls ==
    { [user |-> u, ans |-> a] :
        u \in {u \in Users : RegisterUserRequestSchema(u)}, a \in Answers(RegisterTexts) }
    \cup { [user |-> u, ans |-> NoAnswer] : u \in {u \in Users : ~RegisterUserRequestSchema(u)} }

Register ==
    /\ pc = "idle"
    /\ \E c \in RegisterCalls :
         LET r == UsersRegister(c.user, c.ans.net, c.ans.status, c.ans.text)
         IN /\ call' = [op |-> "register", net |-> c.ans.net, status |-> c.ans.status,
                        text |-> c.ans.text, schema |-> "RegisterResponseSchema",
                        arg |-> c.user]
            /\ outcome' = r.outcome
            /\ requests' = requests \o r.sent
    /\ pc' = "settled"
    /\ UNCHANGED notApiVars

Credentials ==
    { Obj([email |-> e, password |-> p]) : e \in LoginEmails, p \in LoginPasswords }

\* The calls of login a test may make, with the answer when a request is sent.
LoginCalls ==
    { [cred |-> c, ans |-> a] :
        c \in {c \in Credentials : LoginRequestSchema(c)}, a \in Answers(LoginTexts) }
    \cup { [cred |-> c, ans |-> NoAnswer] : c \in {c \in Credentials : ~LoginRequestSchema(c)} }

Login ==
    /\ pc = "idle"
    /\ \E c \in LoginCalls :
         LET r == UsersLogin(c.cred.f["email"], c.cred.f["password"],
                             c.ans.net, c.ans.status, c.ans.text)
         IN /\ call' = [op |-> "login", net |-> c.ans.net, status |-> c.ans.status,
                        text |-> c.ans.text, schema |-> "LoginResponseSchema",
                        arg |-> c.cred]
            /\ outcome' = r.outcome
            /\ requests' = requests \o r.sent
    /\ pc' = "settled"
    /\ UNCHANGED notApiVars

\* The test ends; the next test starts with a fresh APIRequestContext.
NextTest ==
    /\ pc = "settled"
    /\ pc' = "idle"
    /\ call' = NoCall
    /\ outcome' = Pending
    /\ requests' = <<>>
    /\ UNCHANGED notApiVars

Next == Get \/ Post \/ Patch \/ Delete \/ Register \/ Login \/ NextTest

Spec == Init /\ [][Next]_vars

---------------------------------------------------------------------------
(* The userProfile fixture (lib/fixtures/testBase) *)

\* `test_user_${uniqueId}@example.com`
FixtureEmail(uniqueId) ==
    Str(<<"t", "e", "s", "t", "_", "u", "s", "e", "r", "_", DigitChar(uniqueId),
          "@", "e", "x", "a", "m", "p", "l", "e", ".", "c", "o", "m">>)

\* `Test User ${uniqueId}`
FixtureName(uniqueId) ==
    Str(<<"T", "e", "s", "t", " ", "U", "s", "e", "r", " ", DigitChar(uniqueId)>>)

\* 'password123'
FixturePassword == Str(<<"p", "a", "s", "s", "w", "o", "r", "d", "1", "2", "3">>)

\* const user = { name, email, password, token: '' }
FixtureUser(uniqueId) ==
    Obj([name |-> FixtureName(uniqueId), email |-> FixtureEmail(uniqueId),
         password |-> FixturePassword, token |-> EmptyString])

\* user.token = <value>
WithToken(user, value) == Obj([user.f EXCEPT !["token"] = value])

MessageBody == Obj([message |-> Str(<<"n", "o">>)])

\* Answers of the registration endpoint to the fixture's request.
FixtureRegisterAnswers(user) ==
    AnswersWith({201, 409},
            {EmptyText,
             JsonText(Obj([data |-> Obj([id |-> Num(7), email |-> user.f["email"]])])),
             JsonText(Obj([data |-> Null])),
             JsonText(MessageBody)})

\* Answers of the login endpoint to the fixture's request.
FixtureLoginAnswers ==
    AnswersWith({200, 401},
            {EmptyText,
             JsonText(Obj([data |-> Obj([token |-> TokenA])])),
             JsonText(Obj([token |-> TokenB])),
             JsonText(Obj([data |-> Obj([token |-> EmptyString,
                                         data |-> Obj([token |-> TokenA])])])),
             JsonText(MessageBody)})

\* Date.now() advances.
Tick ==
    /\ now < MaxClock
    /\ now' = now + 1
    /\ UNCHANGED <<fx, notFxVars>>

\* The fixture starts: uniqueId = Date.now(), the user is built and
\* authAPI.register(user) is called and awaited.
UserProfileStart(w) ==
    /\ fx[w].pc = "idle"
    /\ LET user == FixtureUser(now)
       IN fx' = [fx EXCEPT ![w] =
                    [@ EXCEPT !.pc = "registering", !.user = user, !.registerArg = user,
                              !.events = Append(@, "register:start")]]
    /\ UNCHANGED <<now, notFxVars>>

\* Mutant of UserProfileAfterRegister: a rejection of register is swallowed.
UserProfileIgnoringRegister(w) ==
    /\ fx[w].pc = "registering"
    /\ \E a \in FixtureRegisterAnswers(fx[w].user) :
         LET r == UsersRegister(fx[w].registerArg, a.net, a.status, a.text)
         IN fx' = [fx EXCEPT ![w] =
                    [@ EXCEPT !.pc = "loggingIn", !.registerOutcome = r.outcome,
                              !.loginArg = Obj([email |-> Prop(fx[w].user, "email"),
                                                password |-> Prop(fx[w].user, "password")]),
                              !.events = @ \o <<"register:end", "login:start">>]]
    /\ UNCHANGED <<now, notFxVars>>

\* register settles.  A rejection fails the fixture; otherwise the fixture goes on to
\* call authAPI.login(user.email, user.password) and awaits it.
UserProfileAfterRegister(w) ==
    /\ fx[w].pc = "registering"
    /\ \E a \in FixtureRegisterAnswers(fx[w].user) :
         LET r == UsersRegister(fx[w].registerArg, a.net, a.status, a.text)
         IN fx' = [fx EXCEPT ![w] =
              IF r.outcome.kind = "threw"
              THEN [@ EXCEPT !.pc = "failed", !.registerOutcome = r.outcome,
                             !.events = Append(@, "register:end")]
              ELSE [@ EXCEPT !.pc = "loggingIn", !.registerOutcome = r.outcome,
                             !.loginArg = Obj([email |-> Prop(fx[w].user, "email"),
                                               password |-> Prop(fx[w].user, "password")]),
                             !.events = @ \o <<"register:end", "login:start">>]]
    /\ UNCHANGED <<now, notFxVars>>

\* login settles.  A rejection fails the fixture; otherwise user.token is set and
\* use(user) hands the user to the test body.
UserProfileAfterLogin(w) ==
    /\ fx[w].pc = "loggingIn"
    /\ \E a \in FixtureLoginAnswers :
         LET r == UsersLogin(Prop(fx[w].loginArg, "email"), Prop(fx[w].loginArg, "password"),
                             a.net, a.status, a.text)
         IN fx' = [fx EXCEPT ![w] =
              IF r.outcome.kind = "threw"
              THEN [@ EXCEPT !.pc = "failed", !.loginOutcome = r.outcome,
                             !.events = Append(@, "login:end")]
              ELSE [@ EXCEPT !.pc = "body", !.loginOutcome = r.outcome,
                             !.user = WithToken(@, r.outcome.value),
                             !.handed = WithToken(fx[w].user, r.outcome.value),
                             !.events = @ \o <<"login:end", "body:start">>]]
    /\ UNCHANGED <<now, notFxVars>>

\* The test is over (its body finished, or its fixture failed); the worker
\* takes the next test.
UserProfileTeardown(w) ==
    /\ fx[w].pc \in {"body", "failed"}
    /\ fx' = [fx EXCEPT ![w] = NoFixture]
    /\ UNCHANGED <<now, notFxVars>>

FixtureNext ==
    \/ Tick
    \/ \E w \in Workers :
         \/ UserProfileStart(w)
         \/ UserProfileAfterRegister(w)
         \/ UserProfileAfterLogin(w)
         \/ UserProfileTeardown(w)

FixtureSpec == Init /\ [][FixtureNext]_vars

---------------------------------------------------------------------------
(* The authenticatedPage fixture (lib/fixtures/testBase) *)

\* The values userProfile.token can hold when userProfile hands the user over:
\* what login returned.
UserProfileTokens == {TokenA, TokenB, EmptyString}

\* { name: 'token', value: userProfile.token, domain: ..., path: '/' }
TokenCookie(token) ==
    [name |-> "token", value |-> token, domain |-> "practice.expandtesting.com",
     path |-> "/"]

AppUrl == "/notes/app"
LoginUrl == "/notes/app/login"

\* How page.goto('/notes/app') can settle: it rejects (timeout, network), or the
\* page loads.  The app shows the logged-in state only for a token cookie it
\* accepts; it may turn down any token (unknown, expired) and turns down an empty one.
GotoResults(cookies) ==
    {[threw |-> TRUE, url |-> "about:blank", loggedIn |-> FALSE]}
        \cup {[threw |-> FALSE, url |-> LoginUrl, loggedIn |-> FALSE],
              [threw |-> FALSE, url |-> AppUrl, loggedIn |-> FALSE]}
        \cup {[threw |-> FALSE, url |-> AppUrl, loggedIn |-> TRUE] :
                c \in {c \in {cookies[i] : i \in 1..Len(cookies)} :
                            c.name = "token" /\ Truthy(c.value)}}

\* The fixture starts once userProfile has handed over the user:
\* page.context().addCookies([...]) is called and awaited.
AuthenticatedPageStart(w) ==
    /\ ap[w].pc = "idle"
    /\ \E token \in UserProfileTokens :
         ap' = [ap EXCEPT ![w] =
                  [@ EXCEPT !.pc = "addingCookies", !.token = token,
                            !.events = Append(@, "addCookies:start")]]
    /\ UNCHANGED notPageVars

\* Mutant of AuthenticatedPageAfterAddCookies: a rejection of addCookies is swallowed.
AuthenticatedPageIgnoringAddCookies(w) ==
    /\ ap[w].pc = "addingCookies"
    /\ \E ok \in BOOLEAN :
         ap' = [ap EXCEPT ![w] =
                  [@ EXCEPT !.pc = "navigating",
                            !.cookies = IF ok THEN Append(@, TokenCookie(ap[w].token)) ELSE @,
                            !.events = @ \o <<"addCookies:end", "goto:start">>]]
    /\ UNCHANGED notPageVars

\* addCookies settles.  A rejection fails the fixture; otherwise the cookie is in the
\* context and page.goto('/notes/app') is called and awaited.
AuthenticatedPageAfterAddCookies(w) ==
    /\ ap[w].pc = "addingCookies"
    /\ \E ok \in BOOLEAN :
         ap' = [ap EXCEPT ![w] =
                  IF ok
                  THEN [@ EXCEPT !.pc = "navigating",
                                 !.cookies = Append(@, TokenCookie(ap[w].token)),
                                 !.events = @ \o <<"addCookies:end", "goto:start">>]
                  ELSE [@ EXCEPT !.pc = "failed",
                                 !.events = Append(@, "addCookies:end")]]
    /\ UNCHANGED notPageVars

\* goto settles.  A rejection fails the fixture; otherwise use(page) hands the page to
\* the test body.
AuthenticatedPageAfterGoto(w) ==
    /\ ap[w].pc = "navigating"
    /\ \E r \in GotoResults(ap[w].cookies) :
         ap' = [ap EXCEPT ![w] =
                  IF r.threw
                  THEN [@ EXCEPT !.pc = "failed", !.events = Append(@, "goto:end")]
                  ELSE [@ EXCEPT !.pc = "body", !.url = r.url, !.loggedIn = r.loggedIn,
                                 !.handed = TRUE,
                                 !.events = @ \o <<"goto:end", "body:start">>]]
    /\ UNCHANGED notPageVars

\* The test is over; the worker takes the next test with a fresh browser context.
AuthenticatedPageTeardown(w) ==
    /\ ap[w].pc \in {"body", "failed"}
    /\ ap' = [ap EXCEPT ![w] = NoPage]
    /\ UNCHANGED notPageVars

PageNext ==
    \E w \in Workers :
        \/ AuthenticatedPageStart(w)
        \/ AuthenticatedPageAfterAddCookies(w)
        \/ AuthenticatedPageAfterGoto(w)
        \/ AuthenticatedPageTeardown(w)

PageSpec == Init /\ [][PageNext]_vars

---------------------------------------------------------------------------
(* The unique-data helpers (lib/helpers/e2eHelpers) *)

\* The prefixes the E2E tests pass: 'login', 'wrongpwd'.
Prefixes == {<<"l", "o", "g", "i", "n">>, <<"w", "r", "o", "n", "g", "p", "w", "d">>}

\* `e2e_${prefix}_w${testInfo.workerIndex}_${Date.now()}@example.com`
GenerateUniqueEmail(prefix, workerIndex, time) ==
    <<"e", "2", "e", "_">> \o prefix \o <<"_", "w">> \o Decimal(workerIndex)
        \o <<"_">> \o Decimal(time)
        \o <<"@", "e", "x", "a", "m", "p", "l", "e", ".", "c", "o", "m">>

\* `e2e_user_w${testInfo.workerIndex}_${Date.now()}`
GenerateUniqueUsername(workerIndex, time) ==
    <<"e", "2", "e", "_", "u", "s", "e", "r", "_", "w">> \o Decimal(workerIndex)
        \o <<"_">> \o Decimal(time)

\* A test running on worker w calls generateUniqueEmail(prefix, testInfo).
CallGenerateUniqueEmail(w) ==
    /\ Len(gen) < MaxCalls
    /\ \E prefix \in Prefixes :
         gen' = Append(gen, [fn |-> "generateUniqueEmail", prefix |-> prefix, worker |-> w,
                             value |-> GenerateUniqueEmail(prefix, w, now)])
    /\ UNCHANGED <<now, notGenVars>>

\* A test running on worker w calls generateUniqueUsername(testInfo).
CallGenerateUniqueUsername(w) ==
    /\ Len(gen) < MaxCalls
    /\ gen' = Append(gen, [fn |-> "generateUniqueUsername", prefix |-> <<>>, worker |-> w,
                           value |-> GenerateUniqueUsername(w, now)])
    /\ UNCHANGED <<now, notGenVars>>

GenNext ==
    \/ Tick
    \/ \E w \in Workers :
         \/ CallGenerateUniqueEmail(w)
         \/ CallGenerateUniqueUsername(w)

GenSpec == Init /\ [][GenNext]_vars

---------------------------------------------------------------------------
(* The Xray JUnit reporter (lib/reporters/xrayJunitReporter) *)

\* a || b
Or(a, b) == IF Truthy(a) THEN a ELSE b

\* str.replace(/c/g, by)
ReplaceAll(str, c, by) ==
    Flatten([i \in 1..Len(str) |-> IF str[i] = c THEN by ELSE <<str[i]>>])

\* escapeXml: & first, then <, >, " and '.
EscapeXml(str) ==
    ReplaceAll(ReplaceAll(ReplaceAll(ReplaceAll(ReplaceAll(str,
        "&", Text("&amp;")), "<", Text("&lt;")), ">", Text("&gt;")),
        "\"", Text("&quot;")), "'", Text("&apos;"))

\* parts.join(sep)
Join(parts, sep) ==
    Flatten([i \in 1..Len(parts) |-> (IF i > 1 THEN sep ELSE <<>>) \o parts[i]])

\* (n).toFixed(3) for an integer n
IntToFixed3(n) == Decimal(n) \o Text(".000")

\* (ms / 1000).toFixed(3) for an integer number of milliseconds
MillisToFixed3(ms) ==
    Decimal(ms \div 1000) \o <<".">>
        \o <<DigitChar((ms % 1000) \div 100), DigitChar((ms % 100) \div 10), DigitChar(ms % 10)>>

\* path.relative(from, to) on paths given by their segments (POSIX separator).
RECURSIVE CommonPrefixLen(_, _)
CommonPrefixLen(a, b) ==
    IF a # <<>> /\ b # <<>> /\ Head(a) = Head(b)
    THEN 1 + CommonPrefixLen(Tail(a), Tail(b))
    ELSE 0
PathRelative(from, to) ==
    LET n == CommonPrefixLen(from, to)
    IN Join([i \in 1..(Len(from) - n) |-> Text("..")]
                \o SubSeq(to, n + 1, Len(to)), <<"/">>)

\* test.annotations.find((a) => a.type === 'xray')?.description
XrayKey(test) ==
    LET found == {i \in 1..Len(test.annotations) : test.annotations[i].type = Text("xray")}
    IN IF found = {} THEN Undef
       ELSE test.annotations[CHOOSE i \in found : \A j \in found : i <= j].description

\* classname = xrayKey ? `${xrayKey}::${relativePath}` : relativePath
Classname(rootDir, test) ==
    LET xrayKey == XrayKey(test)
        relativePath == PathRelative(rootDir, test.file)
    IN IF Truthy(xrayKey) THEN xrayKey.s \o Text("::") \o relativePath ELSE relativePath

IsFailure(status) == status \in {"failed", "timedOut"}

\* The mutation of GenerateTestCase: a skipped test gets no <skipped/> child.
GenerateTestCaseWithoutSkipped(test, result, classname) ==
    LET time == MillisToFixed3(result.duration)
        error == Or(Prop(result.error, "message"), Str(Text("Test failed")))
        stack == Or(Prop(result.error, "stack"), Str(<<>>))
    IN Join(<<Text("<testcase name=\"") \o EscapeXml(test.title)
                  \o Text("\" classname=\"") \o EscapeXml(classname)
                  \o Text("\" time=\"") \o time \o Text("\">")>>
            \o (IF IsFailure(result.status)
                THEN <<Text("  <failure message=\"") \o EscapeXml(error.s) \o Text("\">"),
                       Text("    <![CDATA[") \o stack.s \o Text("]]>"),
                       Text("  </failure>")>>
                ELSE <<>>)
            \o <<Text("</testcase>")>>, <<"\n">>)

\* generateTestCase(test, result, classname)
GenerateTestCase(test, result, classname) ==
    LET time == MillisToFixed3(result.duration)
        error == Or(Prop(result.error, "message"), Str(Text("Test failed")))
        stack == Or(Prop(result.error, "stack"), Str(<<>>))
    IN Join(<<Text("<testcase name=\"") \o EscapeXml(test.title)
                  \o Text("\" classname=\"") \o EscapeXml(classname)
                  \o Text("\" time=\"") \o time \o Text("\">")>>
            \o (IF IsFailure(result.status)
                THEN <<Text("  <failure message=\"") \o EscapeXml(error.s) \o Text("\">"),
                       Text("    <![CDATA[") \o stack.s \o Text("]]>"),
                       Text("  </failure>")>>
                ELSE IF result.status = "skipped"
                THEN <<Text("  <skipped/>")>>
                ELSE <<>>)
            \o <<Text("</testcase>")>>, <<"\n">>)

\* Sum of f[i] over the indices in a set.
RECURSIVE SumOver(_, _)
SumOver(f, idx) ==
    IF idx = {} THEN 0
    ELSE LET i == CHOOSE i \in idx : TRUE IN f[i] + SumOver(f, idx \ {i})

\* The mutation of LastResult: the result of the first attempt.
FirstResult(results) == results[1]

\* const lastResult = results[results.length - 1]
LastResult(results) == results[Len(results)]

\* generateTestSuite(suite): the tests of the suite that have results, each reported
\* with its last result.  results[k] are the results collected for the suite's k-th test.
GenerateTestSuite(rootDir, suite, results) ==
    LET reported == SelectSeq([k \in 1..Len(suite.tests) |-> k], LAMBDA k : Len(results[k]) > 0)
        last == [k \in 1..Len(suite.tests) |->
                    IF Len(results[k]) > 0 THEN LastResult(results[k])
                    ELSE [status |-> "none", duration |-> 0, error |-> Undef]]
        idx == {reported[i] : i \in 1..Len(reported)}
        testCount == Len(reported)
        failureCount == Cardinality({k \in idx : IsFailure(last[k].status)})
        skippedCount == Cardinality({k \in idx : last[k].status = "skipped"})
        totalTime == SumOver([k \in 1..Len(suite.tests) |-> last[k].duration], idx)
        tests == [i \in 1..Len(reported) |->
                    GenerateTestCase(suite.tests[reported[i]], last[reported[i]],
                                     Classname(rootDir, suite.tests[reported[i]]))]
        suiteName == IF Len(suite.title) > 0 THEN suite.title
                     ELSE PathRelative(rootDir, suite.file)
    IN [xml |-> Join(<<Text("<testsuite name=\"") \o EscapeXml(suiteName)
                          \o Text("\" tests=\"") \o Decimal(testCount)
                          \o Text("\" failures=\"") \o Decimal(failureCount)
                          \o Text("\" skipped=\"") \o Decimal(skippedCount)
                          \o Text("\" time=\"") \o IntToFixed3(totalTime) \o Text("\">")>>
                     \o tests \o <<Text("</testsuite>")>>, <<"\n">>),
        stats |-> [tests |-> testCount, failures |-> failureCount,
                   skipped |-> skippedCount, time |-> totalTime]]

\* generateJUnitXML(): the suites that have tests, under the totals.
GenerateJUnitXML(rootDir, suites, results) ==
    LET made == [s \in 1..Len(suites) |-> GenerateTestSuite(rootDir, suites[s], results[s])]
        kept == SelectSeq([s \in 1..Len(suites) |-> s], LAMBDA s : made[s].stats.tests > 0)
        idx == {kept[i] : i \in 1..Len(kept)}
        totalTests == SumOver([s \in 1..Len(suites) |-> made[s].stats.tests], idx)
        totalFailures == SumOver([s \in 1..Len(suites) |-> made[s].stats.failures], idx)
        totalSkipped == SumOver([s \in 1..Len(suites) |-> made[s].stats.skipped], idx)
        totalTime == SumOver([s \in 1..Len(suites) |-> made[s].stats.time], idx)
    IN Join(<<Text("<?xml version=\"1.0\" encoding=\"UTF-8\"?>"),
              Text("<testsuites tests=\"") \o Decimal(totalTests)
                  \o Text("\" failures=\"") \o Decimal(totalFailures)
                  \o Text("\" skipped=\"") \o Decimal(totalSkipped)
                  \o Text("\" time=\"") \o IntToFixed3(totalTime) \o Text("\">")>>
            \o [i \in 1..Len(kept) |-> made[kept[i]].xml]
            \o <<Text("</testsuites>")>>, <<"\n">>)

---------------------------------------------------------------------------
(* The reporter's life: onBegin, onTestEnd for every finished run, onEnd *)

\* config.rootDir, and the files of the tests below it.
RootDir == <<Text("repo")>>
PlainFile == RootDir \o <<Text("tests"), Text("e2e"), Text("login.spec.ts")>>
SpecialFile == RootDir \o <<Text("tests"), Text("r&d"), Text("it's.spec.ts")>>

PlainTitle == Text("logs in")
SpecialTitle == Text("a<b> & \"c\" 'd'")
KeyA == Str(Text("XSP-54"))
KeyB == Str(Text("XSP<7>"))

Annotation(type, description) == [type |-> Text(type), description |-> description]

\* The annotations a test can carry.
AnnotationLists ==
    {<<>>,
     <<Annotation("xray", KeyA)>>,
     <<Annotation("issue", KeyB), Annotation("xray", KeyA)>>,
     <<Annotation("xray", KeyB), Annotation("xray", KeyA)>>,
     <<Annotation("xray", EmptyString), Annotation("xray", KeyA)>>,
     <<Annotation("xray", Undef)>>}

TestCases ==
    {[title |-> t, annotations |-> a, file |-> f] :
        t \in {PlainTitle, SpecialTitle}, a \in AnnotationLists, f \in {PlainFile, SpecialFile}}

\* A project suite: its title is the project's name; it has no location, so an
\* empty title falls back to path.relative(rootDir, ''), the path to the working
\* directory, which is rootDir itself.
ProjectSuite(title, tests) == [title |-> title, file |-> RootDir, tests |-> tests]

\* The root suites a run of one project with one test hands to onBegin.
SingleTestSuites ==
    {<<ProjectSuite(title, <<t>>)>> :
        title \in {<<>>, Text("chromium"), Text("\"x\" <&>")}, t \in TestCases}

\* result.error
NoStack == MkObj([message |-> Str(Text("boom")), stack |-> Undef])
PlainError == MkObj([message |-> Str(Text("boom")), stack |-> Str(Text("at f"))])
SpecialError == MkObj([message |-> Str(Text("1 < 2 && \"x\"")), stack |-> Str(Text("a[b[0]]>c"))])

\* The results a finished run can report.
RunResults ==
    {[status |-> "passed", duration |-> d, error |-> Undef] : d \in {0, 1500}}
        \cup {[status |-> st, duration |-> 12, error |-> Undef] : st \in {"skipped", "interrupted"}}
        \cup {[status |-> "failed", duration |-> 2345, error |-> e] :
                e \in {Undef, NoStack, PlainError, SpecialError}}
        \cup {[status |-> "timedOut", duration |-> 30000, error |-> e] :
                e \in {Undef, PlainError}}

\* onBegin(config, suite)
OnBegin(suiteChoices) ==
    /\ reporter.phase = "new"
    /\ \E suites \in suiteChoices :
         reporter' = [reporter EXCEPT
                        !.phase = "running", !.rootDir = RootDir, !.suites = suites,
                        !.results = [s \in 1..Len(suites) |->
                                        [k \in 1..Len(suites[s].tests) |-> <<>>]]]
    /\ UNCHANGED notReporterVars

\* onTestEnd(test, result): a first run of a test ends, or a retry of a run that failed.
OnTestEnd(resultChoices) ==
    /\ reporter.phase = "running"
    /\ \E s \in 1..Len(reporter.suites) :
         \E k \in 1..Len(reporter.suites[s].tests), result \in resultChoices :
            LET before == reporter.results[s][k]
            IN /\ Len(before) < MaxResults
               /\ Len(before) > 0 => IsFailure(before[Len(before)].status)
               /\ reporter' = [reporter EXCEPT !.results[s][k] = Append(@, result)]
    /\ UNCHANGED notReporterVars

\* onEnd(result): the document is generated and written to test-results/junit-xray.xml.
OnEnd ==
    /\ reporter.phase = "running"
    /\ reporter' = [reporter EXCEPT
                      !.phase = "done", !.written = TRUE,
                      !.file = GenerateJUnitXML(reporter.rootDir, reporter.suites,
                                                reporter.results)]
    /\ UNCHANGED notReporterVars

ReporterNext ==
    \/ OnBegin(SingleTestSuites)
    \/ OnTestEnd(RunResults)
    \/ OnEnd

ReporterSpec == Init /\ [][ReporterNext]_vars

\* A run whose titles, keys and errors hold no character with a meaning in XML, with
\* up to two tests in up to two projects: the counts and times of the report.
FirstTest == [title |-> Text("logs in"), annotations |-> <<Annotation("xray", KeyA)>>,
              file |-> PlainFile]
SecondTest == [title |-> Text("logs out"), annotations |-> <<>>, file |-> PlainFile]

\* The root suites handed to onBegin: one project with two tests, two projects
\* running the same file, and a project none of whose tests is selected.
ReportSuites ==
    {<<ProjectSuite(Text("chromium"), <<FirstTest, SecondTest>>)>>,
     <<ProjectSuite(Text("chromium"), <<FirstTest>>),
       ProjectSuite(Text("firefox"), <<FirstTest>>)>>,
     <<ProjectSuite(Text("chromium"), <<>>),
       ProjectSuite(Text("firefox"), <<FirstTest, SecondTest>>)>>}

\* The results a finished run reports there.
ReportResults ==
    {[status |-> "passed", duration |-> 1500, error |-> Undef],
     [status |-> "failed", duration |-> 2345, error |-> PlainError],
     [status |-> "skipped", duration |-> 0, error |-> Undef],
     [status |-> "timedOut", duration |-> 30000, error |-> Undef]}

ReportNext ==
    \/ OnBegin(ReportSuites)
    \/ OnTestEnd(ReportResults)
    \/ OnEnd

ReportSpec == Init /\ [][ReportNext]_vars

---------------------------------------------------------------------------
(* Test selection by tag in the CI runs *)

TestTitled(file, describe, title) == [file |-> file, describe |-> describe, title |-> title]

\* The tests of the repository: file, title of the enclosing describe, title.
TestCatalogue ==
    <<
      TestTitled("tests/visual/critical-pages.spec.ts",
                 "Critical Pages - Visual Regression @visual @critical",
                 "login page should match baseline"),
      TestTitled("tests/visual/critical-pages.spec.ts",
                 "Critical Pages - Visual Regression @visual @critical",
                 "registration page should match baseline"),
      TestTitled("tests/visual/critical-pages.spec.ts",
                 "Critical Pages - Visual Regression @visual @critical",
                 "authenticated dashboard should match baseline"),
      TestTitled("tests/visual/critical-pages.spec.ts",
                 "Critical Pages - Visual Regression @visual @critical",
                 "login page - empty state"),
      TestTitled("tests/visual/critical-pages.spec.ts",
                 "Critical Pages - Visual Regression @visual @critical",
                 "login page - validation error state"),
      TestTitled("tests/visual/critical-pages.spec.ts",
                 "Critical Pages - Visual Regression @visual @critical",
                 "registration page - password mismatch error"),
      TestTitled("tests/visual/critical-pages.spec.ts",
                 "Critical Pages - Visual Regression @visual @critical",
                 "mobile viewport - login page"),
      TestTitled("tests/visual/critical-pages.spec.ts",
                 "Critical Pages - Visual Regression @visual @critical",
                 "tablet viewport - dashboard"),
      TestTitled("unnamed/part_013",
                 "Accessibility Testing @quarantine",
                 "login page should pass critical accessibility checks @a11y @smoke"),
      TestTitled("unnamed/part_013",
                 "Accessibility Testing @quarantine",
                 "registration page should pass critical accessibility checks @a11y @smoke"),
      TestTitled("unnamed/part_013",
                 "Accessibility Testing @quarantine",
                 "dashboard page should pass critical accessibility checks @a11y"),
      TestTitled("unnamed/part_013",
                 "Accessibility Testing @quarantine",
                 "complete user flow maintains accessibility @a11y @e2e"),
      TestTitled("unnamed/part_013",
                 "Accessibility Testing @quarantine",
                 "form error states maintain accessibility @a11y @validation"),
      TestTitled("unnamed/part_013",
                 "Accessibility Testing @quarantine",
                 "keyboard navigation works on login form @a11y @keyboard"),
      TestTitled("tests/e2e/session.spec.ts",
                 "Login Flow - E2E @e2e",
                 "should login successfully with valid credentials @smoke"),
      TestTitled("tests/e2e/session.spec.ts",
                 "Login Flow - E2E @e2e",
                 "should show error for invalid credentials @regression"),
      TestTitled("tests/e2e/session.spec.ts",
                 "Login Flow - E2E @e2e",
                 "should show error for incorrect password"),
      TestTitled("tests/e2e/session.spec.ts",
                 "Login Flow - E2E @e2e",
                 "should show validation error for empty username @regression @validation"),
      TestTitled("tests/e2e/session.spec.ts",
                 "Login Flow - E2E @e2e",
                 "should show validation errors for missing username @regression @validation"),
      TestTitled("tests/e2e/session.spec.ts",
                 "Login Flow - E2E @e2e",
                 "should navigate to registration page when clicking register link"),
      TestTitled("tests/e2e/session.spec.ts",
                 "Session and Navigation - E2E",
                 "should allow navigation to login from unauthenticated state"),
      TestTitled("tests/e2e/session.spec.ts",
                 "Session and Navigation - E2E",
                 "should allow navigation to registration from unauthenticated state"),
      TestTitled("tests/e2e/session.spec.ts",
                 "Session and Navigation - E2E",
                 "should navigate from login to registration page"),
      TestTitled("tests/api/auth.spec.ts",
                 "",
                 "API + UI smoke: register, login and open app")
    >>

\* The title --grep is matched against: the titles on the path to the test.
FullTitle(test) ==
    IF test.describe = "" THEN Text(test.title)
    ELSE Text(test.describe) \o <<" ">> \o Text(test.title)

\* text.includes(part)
Includes(text, part) ==
    \E i \in 1..(Len(text) - Len(part) + 1) : SubSeq(text, i, i + Len(part) - 1) = part

\* A test carries the tag when the tag occurs in its full title.
HasTag(test, tag) == Includes(FullTitle(test), Text(tag))

\* npx playwright test [--grep <grep>] [--grep-invert <grepInvert>]; "" when not given.
Selection(grep, grepInvert) == [grep |-> grep, grepInvert |-> grepInvert]

IsSelected(test, selection) ==
    /\ selection.grep = "" \/ HasTag(test, selection.grep)
    /\ selection.grepInvert = "" \/ ~HasTag(test, selection.grepInvert)

\* What starts a CI run.
Triggers == {"pull_request", "feature", "main", "develop", "nightly"}

\* The selection each trigger applies.
SelectionOf(trigger) ==
    CASE trigger = "none" -> Selection("", "")
      [] trigger = "main" -> Selection("@regression", "")
      [] trigger = "develop" -> Selection("", "")
      [] trigger = "pull_request" -> Selection("@smoke", "")
      [] trigger = "feature" -> Selection("@smoke", "")
      [] trigger = "nightly" -> Selection("", "@quarantine")

\* The tests a selection keeps, in the order of the catalogue.
SelectedTests(selection) ==
    SelectSeq([i \in 1..Len(TestCatalogue) |-> i],
              LAMBDA i : IsSelected(TestCatalogue[i], selection))

\* A run is triggered: the tests are filtered and queued for the workers.
StartRun ==
    /\ ci.phase = "idle"
    /\ \E trigger \in Triggers :
         ci' = [ci EXCEPT !.phase = "running", !.trigger = trigger,
                          !.queue = SelectedTests(SelectionOf(trigger))]
    /\ UNCHANGED notCiVars

\* A free worker takes the next queued test and executes it.
WorkerTakesTest(w) ==
    /\ ci.phase = "running"
    /\ ci.running[w] = 0
    /\ ci.queue # <<>>
    /\ ci' = [ci EXCEPT !.running[w] = Head(ci.queue), !.queue = Tail(ci.queue),
                        !.executed = @ \cup {Head(ci.queue)}]
    /\ UNCHANGED notCiVars

\* The worker's test ends.
WorkerFinishesTest(w) ==
    /\ ci.phase = "running"
    /\ ci.running[w] # 0
    /\ ci' = [ci EXCEPT !.running[w] = 0]
    /\ UNCHANGED notCiVars

\* All selected tests have run.
FinishRun ==
    /\ ci.phase = "running"
    /\ ci.queue = <<>>
    /\ \A w \in Workers : ci.running[w] = 0
    /\ ci' = [ci EXCEPT !.phase = "done"]
    /\ UNCHANGED notCiVars

CiNext ==
    \/ StartRun
    \/ \E w \in Workers : WorkerTakesTest(w) \/ WorkerFinishesTest(w)
    \/ FinishRun

CiSpec == Init /\ [][CiNext]_vars

---------------------------------------------------------------------------
(* The accessibility helpers (lib/helpers/a11yHelpers) *)

\* impact: 'minor' | 'moderate' | 'serious' | 'critical'
Impacts == {"minor", "moderate", "serious", "critical"}

\* The violations axe-core can report: rule id, impact, number of affected nodes.
AxeViolations ==
    {[id |-> id, impact |-> impact, nodes |-> 1] :
        id \in {"color-contrast", "label"}, impact \in Impacts}

\* The lists of violations a scan can return.
ViolationLists == UNION {[1..n -> AxeViolations] : n \in 0..MaxViolations}

\* Mutant of GetCriticalViolations: serious violations are dropped as well.
GetCriticalViolationsOnly(violations) ==
    SelectSeq(violations, LAMBDA v : v.impact = "critical")

\* getCriticalViolations(violations)
GetCriticalViolations(violations) ==
    SelectSeq(violations, LAMBDA v : v.impact = "critical" \/ v.impact = "serious")

\* A test calls getCriticalViolations on the violations of a scan it made.
CallGetCriticalViolations ==
    /\ a11y.op = "none"
    /\ \E violations \in ViolationLists :
         a11y' = [op |-> "getCriticalViolations", scanned |-> TRUE,
                  violations |-> violations,
                  critical |-> GetCriticalViolations(violations),
                  result |-> "returned"]
    /\ UNCHANGED notA11yVars

\* A test calls and awaits assertNoAccessibilityViolations(page, message?): the scan
\* rejects, or it resolves and the helper throws when critical.length > 0.
CallAssertNoAccessibilityViolations ==
    /\ a11y.op = "none"
    /\ \/ a11y' = [op |-> "assertNoAccessibilityViolations", scanned |-> FALSE,
                   violations |-> <<>>, critical |-> <<>>, result |-> "threw"]
       \/ \E violations \in ViolationLists :
            LET critical == GetCriticalViolations(violations)
            IN a11y' = [op |-> "assertNoAccessibilityViolations", scanned |-> TRUE,
                        violations |-> violations, critical |-> critical,
                        result |-> IF Len(critical) > 0 THEN "threw" ELSE "returned"]
    /\ UNCHANGED notA11yVars

\* The test is over; the next one starts.
NextCheck ==
    /\ a11y.op # "none"
    /\ a11y' = NoCheck
    /\ UNCHANGED notA11yVars

A11yNext == CallGetCriticalViolations \/ CallAssertNoAccessibilityViolations \/ NextCheck

A11ySpec == Init /\ [][A11yNext]_vars

---------------------------------------------------------------------------
(* UserBuilder (lib/data/builders/userBuilder) *)

\* { ...base, ...overrides }
Spread(base, overrides) ==
    Obj([k \in DOMAIN base.f \cup DOMAIN overrides.f |->
            IF k \in DOMAIN overrides.f THEN overrides.f[k] ELSE base.f[k]])

\* delete result[field], for every field of a set
DeleteFields(object, fields) == Obj([k \in DOMAIN object.f \ fields |-> object.f[k]])

\* The overrides tests pass to UserBuilder.valid.
Overrides ==
    {Obj(<<>>), Obj([email |-> ValidEmail]), Obj([password |-> EmptyString]),
     Obj([name |-> EmptyString, email |-> NotAnEmail])}

\* UserBuilder.valid(overrides) called at the given time
UserBuilderValid(time, overrides) ==
    Spread(Obj([name |-> Str(Text("Test User")),
                email |-> Str(Text("test-") \o Decimal(time) \o Text("@example.com")),
                password |-> Str(Text("password123"))]),
           overrides)

\* Mutant of UserBuilderWithInvalid: the invalid password has six characters.
UserBuilderWithSixCharPassword(time, field) ==
    LET base == UserBuilderValid(time, Obj(<<>>))
    IN CASE field = "name" -> Spread(base, Obj([name |-> EmptyString]))
         [] field = "email" -> Spread(base, Obj([email |-> Str(Text("not-an-email"))]))
         [] field = "password" -> Spread(base, Obj([password |-> Str(Text("123456"))]))
         [] OTHER -> base

\* UserBuilder.withInvalid(field)
UserBuilderWithInvalid(time, field) ==
    LET base == UserBuilderValid(time, Obj(<<>>))
    IN CASE field = "name" -> Spread(base, Obj([name |-> EmptyString]))
         [] field = "email" -> Spread(base, Obj([email |-> Str(Text("not-an-email"))]))
         [] field = "password" -> Spread(base, Obj([password |-> Str(Text("12345"))]))
         [] OTHER -> base

\* UserBuilder.withMissingFields(fields)
UserBuilderWithMissingFields(time, fields) ==
    DeleteFields(UserBuilderValid(time, Obj(<<>>)), fields)

Built(op, field, overrides, payload) ==
    [op |-> op, field |-> field, overrides |-> overrides, payload |-> payload,
     registered |-> FALSE, outcome |-> Pending, sent |-> <<>>]

\* A test builds a payload.
BuildValid ==
    /\ built.op = "none"
    /\ \E overrides \in Overrides :
         built' = Built("valid", "", DOMAIN overrides.f, UserBuilderValid(now, overrides))
    /\ UNCHANGED <<now, notBuilderVars>>

BuildWithInvalid ==
    /\ built.op = "none"
    /\ \E field \in {"name", "email", "password"} :
         built' = Built("withInvalid", field, {}, UserBuilderWithInvalid(now, field))
    /\ UNCHANGED <<now, notBuilderVars>>

BuildWithMissingFields ==
    /\ built.op = "none"
    /\ \E fields \in SUBSET {"email", "password"} :
         built' = Built("withMissingFields", "", fields,
                        UserBuilderWithMissingFields(now, fields))
    /\ UNCHANGED <<now, notBuilderVars>>

\* The test passes the payload to authAPI.register and awaits it.
RegisterBuilt ==
    /\ built.op # "none"
    /\ ~built.registered
    /\ \E a \in IF RegisterUserRequestSchema(built.payload)
                THEN FixtureRegisterAnswers(built.payload) ELSE {NoAnswer} :
         LET r == UsersRegister(built.payload, a.net, a.status, a.text)
         IN built' = [built EXCEPT !.registered = TRUE, !.outcome = r.outcome,
                                   !.sent = r.sent]
    /\ UNCHANGED <<now, notBuilderVars>>

\* The test is over; the next one starts.
NextBuild ==
    /\ built.op # "none"
    /\ built' = NothingBuilt
    /\ UNCHANGED <<now, notBuilderVars>>

BuilderNext ==
    Tick \/ BuildValid \/ BuildWithInvalid \/ BuildWithMissingFields \/ RegisterBuilt
        \/ NextBuild

BuilderSpec == Init /\ [][BuilderNext]_vars

---------------------------------------------------------------------------
(* The login page object and the login UI test (lib/pages, tests/e2e) *)

\* use.baseURL of the configuration, which page.url() reports in front of the path.
BaseURL == "https://practice.expandtesting.com"

\* The password of the registered user (E2E_TEST_PASSWORD).
TestPassword == Text("TestPassword123!")

\* The arguments with which the page object's login is called outside the test below:
\* the unknown user, the empty email and the empty password of the validation tests.
LoginFormArgs ==
    {[email |-> Text("nonexistentuser123456"), password |-> Text("password123")],
     [email |-> <<>>, password |-> Text("password123")],
     [email |-> Text("testuser"), password |-> <<>>]}

\* What the page can show once the click on submit has been handled: it stays on the
\* login page, moves to the notes app or leaves the app, with or without an alert.
AppReactions ==
    {[url |-> BaseURL \o path, errorShown |-> e] :
        path \in {LoginUrl, AppUrl, "/"}, e \in BOOLEAN}

\* One call of a locator method by the page object.
UiEvent(op, target, value, ok) == [op |-> op, target |-> target, value |-> value, ok |-> ok]

\* test('should login successfully with valid credentials @smoke') on worker w:
\* the email is generated and authAPI.register(userData) is awaited; its rejection
\* ends the test.
LoginTestStart(w) ==
    /\ ui.pc = "idle"
    /\ \E registered \in BOOLEAN :
         ui' = [ui EXCEPT !.test = "valid credentials",
                          !.email = GenerateUniqueEmail(Text("login"), w, now),
                          !.password = TestPassword,
                          !.rememberMe = FALSE,
                          !.pc = IF registered THEN "goto" ELSE "ended",
                          !.verdict = IF registered THEN "none" ELSE "failed"]
    /\ UNCHANGED notUiVars

\* Another user of the page object: login(email, password, rememberMe?) is about to
\* be called on a LoginPage.
LoginPageUserStart ==
    /\ ui.pc = "idle"
    /\ \E args \in LoginFormArgs, rememberMe \in BOOLEAN :
         ui' = [ui EXCEPT !.test = "page object", !.email = args.email,
                          !.password = args.password, !.rememberMe = rememberMe,
                          !.pc = "goto"]
    /\ UNCHANGED notUiVars

\* LoginPage.goto: await page.goto('/notes/app/login'); login is called next.
LoginPageGoto ==
    /\ ui.pc = "goto"
    /\ \E ok \in BOOLEAN :
         ui' = [ui EXCEPT !.url = IF ok THEN BaseURL \o LoginUrl ELSE @,
                          !.pc = IF ok THEN "fillEmail" ELSE "ended",
                          !.login = IF ok THEN "running" ELSE @,
                          !.verdict = IF ok THEN @ ELSE "failed"]
    /\ UNCHANGED notUiVars

\* The mutation of LoginFillEmail: a failed fill does not end login.
LoginFillEmailIgnoringFailure ==
    /\ ui.pc = "fillEmail"
    /\ \E ok \in BOOLEAN :
         ui' = [ui EXCEPT !.events = Append(@, UiEvent("fill", "emailInput", ui.email, ok)),
                          !.pc = "fillPassword"]
    /\ UNCHANGED notUiVars

\* LoginPage.login: await this.fill(this.emailInput, email)
LoginFillEmail ==
    /\ ui.pc = "fillEmail"
    /\ \E ok \in BOOLEAN :
         ui' = [ui EXCEPT !.events = Append(@, UiEvent("fill", "emailInput", ui.email, ok)),
                          !.pc = IF ok THEN "fillPassword" ELSE "ended",
                          !.login = IF ok THEN @ ELSE "rejected",
                          !.verdict = IF ok THEN @ ELSE "failed"]
    /\ UNCHANGED notUiVars

\* await this.fill(this.passwordInput, password); with rememberMe false the condition
\* of the if is settled without asking the checkbox.
LoginFillPassword ==
    /\ ui.pc = "fillPassword"
    /\ \E ok \in BOOLEAN :
         ui' = [ui EXCEPT !.events = Append(@, UiEvent("fill", "passwordInput",
                                                        ui.password, ok)),
                          !.pc = IF ~ok THEN "ended"
                                 ELSE IF ui.rememberMe THEN "isVisible" ELSE "clickSubmit",
                          !.login = IF ok THEN @ ELSE "rejected",
                          !.verdict = IF ok THEN @ ELSE "failed"]
    /\ UNCHANGED notUiVars

\* rememberMe && (await this.rememberMeCheckbox.isVisible()): the checkbox is shown,
\* is not shown, or the call rejects (the locator matches two elements).
LoginCheckboxIsVisible ==
    /\ ui.pc = "isVisible"
    /\ \E answer \in {"visible", "hidden", "rejected"} :
         ui' = [ui EXCEPT !.events = Append(@, UiEvent("isVisible", "rememberMeCheckbox",
                                                        <<>>, answer # "rejected")),
                          !.checkboxVisible = (answer = "visible"),
                          !.pc = CASE answer = "visible" -> "clickCheckbox"
                                   [] answer = "hidden" -> "clickSubmit"
                                   [] OTHER -> "ended",
                          !.login = IF answer = "rejected" THEN "rejected" ELSE @,
                          !.verdict = IF answer = "rejected" THEN "failed" ELSE @]
    /\ UNCHANGED notUiVars

\* await this.click(this.rememberMeCheckbox)
LoginClickCheckbox ==
    /\ ui.pc = "clickCheckbox"
    /\ \E ok \in BOOLEAN :
         ui' = [ui EXCEPT !.events = Append(@, UiEvent("click", "rememberMeCheckbox",
                                                        <<>>, ok)),
                          !.pc = IF ok THEN "clickSubmit" ELSE "ended",
                          !.login = IF ok THEN @ ELSE "rejected",
                          !.verdict = IF ok THEN @ ELSE "failed"]
    /\ UNCHANGED notUiVars

\* await this.click(this.loginButton): the last statement of login.  The test goes
\* on to wait for the app; the other user of the page object is done.
LoginClickSubmit ==
    /\ ui.pc = "clickSubmit"
    /\ \E ok \in BOOLEAN :
         ui' = [ui EXCEPT !.events = Append(@, UiEvent("click", "loginButton", <<>>, ok)),
                          !.pc = IF ok /\ ui.test = "valid credentials"
                                 THEN "waiting" ELSE "ended",
                          !.login = IF ok THEN "resolved" ELSE "rejected",
                          !.verdict = IF ok THEN @ ELSE "failed"]
    /\ UNCHANGED notUiVars

\* await waitForAuthResponse(page): page.waitForTimeout(1000), during which the app
\* answers the submitted form.
WaitForAuthResponse ==
    /\ ui.pc = "waiting"
    /\ \E reaction \in AppReactions :
         ui' = [ui EXCEPT !.url = reaction.url, !.errorShown = reaction.errorShown,
                          !.pc = "asserting"]
    /\ UNCHANGED notUiVars

\* const url = page.url(); const hasError = await loginPage.hasErrorMessage();
\* expect(url.includes('/notes/app') || !hasError).toBeTruthy()
LoginTestAssertion(url, hasError) == Includes(Text(url), Text("/notes/app")) \/ ~hasError

LoginTestAsserts ==
    /\ ui.pc = "asserting"
    /\ ui' = [ui EXCEPT !.hasError = Bool(ui.errorShown),
                        !.verdict = IF LoginTestAssertion(ui.url, ui.errorShown)
                                    THEN "passed" ELSE "failed",
                        !.pc = "ended"]
    /\ UNCHANGED notUiVars

\* The test is over; the next one starts on a fresh page.
NextUiTest ==
    /\ ui.pc = "ended"
    /\ ui' = NoLoginUi
    /\ UNCHANGED notUiVars

LoginUiNext ==
    \/ \E w \in Workers : LoginTestStart(w)
    \/ LoginPageUserStart
    \/ LoginPageGoto
    \/ LoginFillEmail
    \/ LoginFillPassword
    \/ LoginCheckboxIsVisible
    \/ LoginClickCheckbox
    \/ LoginClickSubmit
    \/ WaitForAuthResponse
    \/ LoginTestAsserts
    \/ NextUiTest

LoginUiSpec == Init /\ [][LoginUiNext]_vars

---------------------------------------------------------------------------
(* Properties of BaseApi *)

Settled == pc = "settled"
IsBaseCall == call.op \in {"get", "post", "patch", "delete"}
IsUsersCall == call.op \in {"register", "login"}
Answered == call.net = "ok"
OkStatus == call.status < 400
JsonBody == call.text.k = "json"
IsEnvelope(v) == v.t = "object" /\ "data" \in DOMAIN v.f
\* The payload of a JSON body as the API contract describes it.
ContractPayload(v) == IF IsEnvelope(v) THEN v.f["data"] ELSE v

\* The response body as a value: nothing for an empty body, the text itself for a
\* body that is not JSON, the JSON value otherwise.
ResponseValue(text) ==
    CASE text.k = "empty" -> Undef
      [] text.k = "raw" -> Str(text.s)
      [] text.k = "json" -> text.v

\* C1: every response with a status outside 200-299 makes get, post, patch and delete
\* throw an ApiError that carries the status and the parsed body; nothing is returned.
C1_NonSuccessThrowsApiError ==
    (Settled /\ IsBaseCall /\ Answered /\ ~(call.status \in 200..299))
        => /\ outcome.kind = "threw"
           /\ outcome.err.type = "ApiError"
           /\ outcome.err.status = Num(call.status)
           /\ (JsonBody /\ call.text.v # Null) => outcome.err.body = call.text.v

Offered(text) ==
    LET payload == ContractPayload(ResponseValue(text))
    IN IF payload \in {Null, Undef} THEN ResponseValue(text) ELSE payload

---------------------------------------------------------------------------
(* Properties of UsersApi *)

\* C4: whenever login returns normally, the value is a non-empty string, whatever the
\* body (token under data, at top level, or both, with any extra fields).
C4_LoginReturnsNonEmptyToken ==
    (Settled /\ call.op = "login" /\ outcome.kind = "returned")
        => outcome.value.t = "string" /\ Len(outcome.value.s) > 0

\* The arguments the API tests use for invalid requests.
IsMissing(key) == ~In(key, call.arg)
BadRegisterArg ==
    \/ Prop(call.arg, "name") = EmptyString
    \/ Prop(call.arg, "email") = NotAnEmail
    \/ (In("password", call.arg) /\ Len(Prop(call.arg, "password").s) < 6)
    \/ IsMissing("name") \/ IsMissing("email") \/ IsMissing("password")
BadLoginArg ==
    \/ Prop(call.arg, "email") = NotAnEmail
    \/ Prop(call.arg, "password") = EmptyString

\* C5: register with an empty name, an invalid email, a password shorter than 6 or a
\* missing field, and login with an invalid email or an empty password, reject
\* without any HTTP request being issued.
C5_InvalidRequestNotSent ==
    /\ (Settled /\ call.op = "register" /\ BadRegisterArg)
          => outcome.kind = "threw" /\ requests = <<>>
    /\ (Settled /\ call.op = "login" /\ BadLoginArg)
          => outcome.kind = "threw" /\ requests = <<>>

C5_Witness ==
    /\ Settled /\ call.op = "register"
    /\ Prop(call.arg, "email") = NotAnEmail
    /\ Prop(call.arg, "name") = Str(<<"T">>)
    /\ In("password", call.arg) /\ Len(Prop(call.arg, "password").s) = 6
    /\ outcome.kind = "threw"
    /\ requests = <<>>

\* C6: every failure of register or login (request fails, request payload invalid,
\* response invalid) reaches the caller as an ApiError, never as another error type.
C6_EveryFailureIsApiError ==
    (Settled /\ IsUsersCall /\ outcome.kind = "threw") => outcome.err.type = "ApiError"

\* C7: when the server answers register or login with a status of 400 or above, the
\* caller gets an ApiError with that status and a defined body, also for an empty or
\* non-JSON response body; it is the ApiError BaseApi raised, unchanged.
C7_ServerErrorPassedOn ==
    (Settled /\ IsUsersCall /\ Answered /\ call.status >= 400)
        => /\ outcome.kind = "threw"
           /\ outcome.err.type = "ApiError"
           /\ outcome.err.status = Num(call.status)
           /\ outcome.err.body # Undef
           /\ outcome = ParseAndValidate(call.status, call.text, call.schema)
           /\ (JsonBody /\ call.text.v # Null) => outcome.err.body = call.text.v
           /\ call.text.k = "raw" => outcome.err.body = Str(call.text.s)

C7_Witness ==
    /\ Settled /\ call.op = "login" /\ Answered
    /\ call.status = 401
    /\ call.text = EmptyText
    /\ outcome = Threw(ApiError(Num(401), EmptyString))

\* A token somewhere below a `data` value.
RECURSIVE HasTokenBelow(_)
HasTokenBelow(v) ==
    /\ v.t = "object"
    /\ \/ "token" \in DOMAIN v.f
       \/ ("data" \in DOMAIN v.f /\ HasTokenBelow(v.f["data"]))

BothTokens(v) ==
    /\ v.t = "object"
    /\ Prop(v, "token").t = "string"
    /\ Prop(Prop(v, "data"), "token").t = "string"
OnlyTopLevelToken(v) ==
    /\ v.t = "object"
    /\ Prop(v, "token").t = "string"
    /\ ~HasTokenBelow(Prop(v, "data"))

C9_RegisterReturnsDefined ==
    (Settled /\ call.op = "register" /\ outcome.kind = "returned")
        => ~IsNullish(outcome.value)

C9_Witness ==
    /\ Settled /\ call.op = "register" /\ outcome.kind = "returned"
    /\ JsonBody /\ IsEnvelope(call.text.v)
    /\ outcome.value = call.text.v.f["data"]
    /\ Prop(outcome.value, "id") = Num(7)

\* C26: every ApiError that register or login throws has a numeric status of at least
\* 400 and a defined body, whatever the cause of the failure (server rejection,
\* response that violates the response schema, transport error).
C26_ApiErrorHasStatusAndBody ==
    (Settled /\ IsUsersCall /\ outcome.kind = "threw" /\ outcome.err.type = "ApiError")
        => /\ outcome.err.status.t = "number"
           /\ outcome.err.status.n >= 400
           /\ outcome.err.body # Undef

---------------------------------------------------------------------------
(* Properties of the userProfile fixture *)

\* The place of an event in a worker's history, 0 when it has not happened.
EventAt(w, e) ==
    IF \E i \in 1..Len(fx[w].events) : fx[w].events[i] = e
    THEN CHOOSE i \in 1..Len(fx[w].events) : fx[w].events[i] = e
    ELSE 0
Happened(w, e) == EventAt(w, e) > 0

\* C10: in the userProfile fixture register completes before login starts and login
\* completes before the test body starts; the token handed to the test is the value
\* login returned for the email that was registered; if register or login fails the
\* test body never runs.
C10_UserProfileOrder ==
    \A w \in Workers :
        /\ Happened(w, "login:start")
              => /\ Happened(w, "register:end")
                 /\ EventAt(w, "register:start") < EventAt(w, "register:end")
                 /\ EventAt(w, "register:end") < EventAt(w, "login:start")
        /\ Happened(w, "body:start")
              => /\ Happened(w, "login:end")
                 /\ EventAt(w, "login:start") < EventAt(w, "login:end")
                 /\ EventAt(w, "login:end") < EventAt(w, "body:start")
                 /\ fx[w].registerOutcome.kind = "returned"
                 /\ fx[w].loginOutcome.kind = "returned"
                 /\ Prop(fx[w].handed, "token") = fx[w].loginOutcome.value
                 /\ Prop(fx[w].loginArg, "email") = Prop(fx[w].registerArg, "email")
                 /\ Prop(fx[w].handed, "email") = Prop(fx[w].registerArg, "email")
        /\ (fx[w].registerOutcome.kind = "threw" \/ fx[w].loginOutcome.kind = "threw")
              => ~Happened(w, "body:start") /\ fx[w].pc = "failed" /\ fx[w].handed = Undef
        /\ fx[w].pc = "body" <=> Happened(w, "body:start")

C10_Witness ==
    \E w \in Workers :
        /\ fx[w].pc = "body"
        /\ Prop(fx[w].handed, "token") = TokenA
        /\ Prop(fx[w].handed, "email") = FixtureEmail(1)
        /\ \E v \in Workers : fx[v].pc = "failed" /\ fx[v].loginOutcome.kind = "threw"

\* C13: the userProfile fixture creates a unique user for each test: the fixtures of
\* tests running at the same time on different workers never hold the same email.
C13_UniqueUserPerTest ==
    \A v, w \in Workers :
        (v # w /\ fx[v].pc # "idle" /\ fx[w].pc # "idle")
            => Prop(fx[v].user, "email") # Prop(fx[w].user, "email")

---------------------------------------------------------------------------
(* Properties of the authenticatedPage fixture *)

\* The place of an event in the history of a worker's page fixture, 0 when it has
\* not happened.
PageEventAt(w, e) ==
    IF \E i \in 1..Len(ap[w].events) : ap[w].events[i] = e
    THEN CHOOSE i \in 1..Len(ap[w].events) : ap[w].events[i] = e
    ELSE 0
PageHappened(w, e) == PageEventAt(w, e) > 0

\* The browser context holds a cookie named token whose value is userProfile.token.
HasTokenCookie(w) ==
    \E i \in 1..Len(ap[w].cookies) :
        ap[w].cookies[i].name = "token" /\ ap[w].cookies[i].value = ap[w].token

\* C11: in the authenticatedPage fixture the cookie `token` holding userProfile.token
\* is added before the navigation to /notes/app starts, and both are over before the
\* test body receives the page; no test body receives a page without the cookie.
C11_CookieBeforeNavigation ==
    \A w \in Workers :
        /\ PageHappened(w, "goto:start")
              => /\ PageHappened(w, "addCookies:end")
                 /\ PageEventAt(w, "addCookies:start") < PageEventAt(w, "addCookies:end")
                 /\ PageEventAt(w, "addCookies:end") < PageEventAt(w, "goto:start")
                 /\ HasTokenCookie(w)
        /\ PageHappened(w, "body:start")
              => /\ PageHappened(w, "goto:end")
                 /\ PageEventAt(w, "goto:start") < PageEventAt(w, "goto:end")
                 /\ PageEventAt(w, "goto:end") < PageEventAt(w, "body:start")
        /\ ap[w].handed <=> PageHappened(w, "body:start")
        /\ ap[w].handed => HasTokenCookie(w)

C11_Witness ==
    \E w \in Workers :
        /\ ap[w].pc = "body" /\ ap[w].handed
        /\ ap[w].token = TokenA
        /\ ap[w].cookies = <<TokenCookie(TokenA)>>
        /\ ap[w].url = AppUrl
        /\ \E v \in Workers : ap[v].pc = "failed" /\ ap[v].cookies = <<>>

\* C12: the authenticatedPage fixture hands over the page only after checking that
\* the app shows the logged-in state; a page on which the injected token did not
\* authenticate the user is never handed to a test.
C12_HandedPageIsLoggedIn ==
    \A w \in Workers : ap[w].handed => ap[w].loggedIn

---------------------------------------------------------------------------
(* Properties of the unique-data helpers *)

\* C14: two calls of generateUniqueEmail with the same prefix, or two calls of
\* generateUniqueUsername, never return the same value, whether they are made by
\* different workers or by the same worker.
C14_GeneratedValuesDiffer ==
    \A i, j \in 1..Len(gen) :
        (i < j /\ gen[i].fn = gen[j].fn /\ gen[i].prefix = gen[j].prefix)
            => gen[i].value # gen[j].value

---------------------------------------------------------------------------
(* Properties of the Xray JUnit reporter *)

\* The key the report is to show for a test: the description of its first annotation
\* of type xray that has a non-empty description, if there is one.
KeyedAnnotations(test) ==
    {i \in 1..Len(test.annotations) :
        /\ test.annotations[i].type = Text("xray")
        /\ test.annotations[i].description.t = "string"
        /\ Len(test.annotations[i].description.s) > 0}
PathBelowRoot(test) ==
    Join(SubSeq(test.file, Len(reporter.rootDir) + 1, Len(test.file)), <<"/">>)
ExpectedClassname(test) ==
    LET keyed == KeyedAnnotations(test)
    IN IF keyed = {} THEN PathBelowRoot(test)
       ELSE test.annotations[CHOOSE i \in keyed : \A j \in keyed : i <= j].description.s
                \o Text("::") \o PathBelowRoot(test)

\* The text occurs in the document.
Contains(doc, text) ==
    \E i \in 1..(Len(doc) - Len(text) + 1) : SubSeq(doc, i, i + Len(text) - 1) = text

\* C15: the classname of a reported testcase is `<key>::<relative path>` when the test
\* has an annotation of type xray with a non-empty description (the first such
\* annotation gives the key), and the relative path alone otherwise.
C15_ClassnameCarriesXrayKey ==
    reporter.written =>
        \A s \in 1..Len(reporter.suites) : \A k \in 1..Len(reporter.suites[s].tests) :
            Len(reporter.results[s][k]) > 0 =>
                LET test == reporter.suites[s].tests[k]
                IN Contains(reporter.file,
                        Text("<testcase name=\"") \o EscapeXml(test.title)
                            \o Text("\" classname=\"") \o EscapeXml(ExpectedClassname(test))
                            \o Text("\" time=\""))

\* Well-formedness of an XML document, by a scan of its characters.
XmlLetters ==
    {Text("abcdefghijklmnopqrstuvwxyzABCDEFGHIJKLMNOPQRSTUVWXYZ")[i] : i \in 1..52}
XmlNameStart == XmlLetters \cup {"_", ":"}
XmlNameChars == XmlNameStart \cup Digits \cup {"-", "."}
XmlSpace == {" ", "\n", "\t", "\r"}

StartsWith(doc, i, text) ==
    i + Len(text) - 1 <= Len(doc) /\ SubSeq(doc, i, i + Len(text) - 1) = text

\* The first place from i on where the text occurs, 0 if there is none.
IndexOf(doc, i, text) ==
    LET at == {j \in i..Len(doc) : StartsWith(doc, j, text)}
    IN IF at = {} THEN 0 ELSE CHOOSE j \in at : \A h \in at : j <= h

\* The first place from i on that holds a character outside the set (past the end if
\* there is none).
FirstNotIn(doc, i, set) ==
    LET at == {j \in i..Len(doc) : doc[j] \notin set}
    IN IF at = {} THEN Len(doc) + 1 ELSE CHOOSE j \in at : \A h \in at : j <= h

\* The place after the name that starts at i (i itself if no name starts there).
NameEnd(doc, i) ==
    IF i <= Len(doc) /\ doc[i] \in XmlNameStart THEN FirstNotIn(doc, i, XmlNameChars) ELSE i

\* A reference starts at the ampersand at i: &name; or &#digits;
IsReference(doc, i) ==
    \/ LET e == NameEnd(doc, i + 1) IN e > i + 1 /\ StartsWith(doc, e, <<";">>)
    \/ /\ StartsWith(doc, i + 1, <<"#">>)
       /\ LET e == FirstNotIn(doc, i + 2, Digits) IN e > i + 2 /\ StartsWith(doc, e, <<";">>)

AttValueOk(doc, from, to) ==
    \A k \in from..to : doc[k] # "<" /\ (doc[k] = "&" => IsReference(doc, k))

RECURSIVE XmlContent(_, _, _, _)
RECURSIVE XmlAttributes(_, _, _, _, _, _)

\* The attributes and the end of the start tag of element `name`, from i on.
XmlAttributes(doc, i, name, seen, open, rootDone) ==
    LET j == FirstNotIn(doc, i, XmlSpace)
    IN IF StartsWith(doc, j, Text("/>"))
       THEN XmlContent(doc, j + 2, open, rootDone \/ open = <<>>)
       ELSE IF StartsWith(doc, j, <<">">>)
       THEN XmlContent(doc, j + 1, <<name>> \o open, rootDone)
       ELSE LET e == NameEnd(doc, j)
                quote == IF e + 1 <= Len(doc) THEN doc[e + 1] ELSE ""
                close == IndexOf(doc, e + 2, <<quote>>)
            IN /\ j > i
               /\ e > j
               /\ SubSeq(doc, j, e - 1) \notin seen
               /\ StartsWith(doc, e, <<"=">>)
               /\ quote \in {"\"", "'"}
               /\ close > 0
               /\ AttValueOk(doc, e + 2, close - 1)
               /\ XmlAttributes(doc, close + 1, name, seen \cup {SubSeq(doc, j, e - 1)},
                                open, rootDone)

\* The rest of the document from i on, inside the elements `open` (innermost first).
XmlContent(doc, i, open, rootDone) ==
    IF i > Len(doc) THEN open = <<>> /\ rootDone
    ELSE IF StartsWith(doc, i, Text("<!--"))
    THEN LET e == IndexOf(doc, i + 4, Text("--")) IN
         e > 0 /\ StartsWith(doc, e, Text("-->")) /\ XmlContent(doc, e + 3, open, rootDone)
    ELSE IF open = <<>>
    THEN IF doc[i] \in XmlSpace
         THEN XmlContent(doc, FirstNotIn(doc, i, XmlSpace), open, rootDone)
         ELSE /\ ~rootDone
              /\ doc[i] = "<"
              /\ LET e == NameEnd(doc, i + 1) IN
                 e > i + 1 /\ XmlAttributes(doc, e, SubSeq(doc, i + 1, e - 1), {}, open, rootDone)
    ELSE IF StartsWith(doc, i, Text("<![CDATA["))
    THEN LET e == IndexOf(doc, i + 9, Text("]]>")) IN
         e > 0 /\ XmlContent(doc, e + 3, open, rootDone)
    ELSE IF StartsWith(doc, i, Text("</"))
    THEN LET e == NameEnd(doc, i + 2)
             c == FirstNotIn(doc, e, XmlSpace)
         IN /\ SubSeq(doc, i + 2, e - 1) = Head(open)
            /\ StartsWith(doc, c, <<">">>)
            /\ XmlContent(doc, c + 1, Tail(open), Len(open) = 1)
    ELSE IF doc[i] = "<"
    THEN LET e == NameEnd(doc, i + 1) IN
         e > i + 1 /\ XmlAttributes(doc, e, SubSeq(doc, i + 1, e - 1), {}, open, rootDone)
    ELSE IF doc[i] = "&"
    THEN IsReference(doc, i) /\ XmlContent(doc, i + 1, open, rootDone)
    ELSE IF StartsWith(doc, i, Text("]]>"))
    THEN FALSE
    ELSE XmlContent(doc, i + 1, open, rootDone)

\* document ::= XMLDecl? element, with white space around the element
WellFormed(doc) ==
    IF StartsWith(doc, 1, Text("<?xml"))
    THEN LET e == IndexOf(doc, 6, Text("?>")) IN e > 0 /\ XmlContent(doc, e + 2, <<>>, FALSE)
    ELSE XmlContent(doc, 1, <<>>, FALSE)

\* C16: the document the reporter writes is well-formed XML whatever the titles, keys,
\* paths, error messages and error stacks contain.
C16_DocumentIsWellFormed ==
    reporter.written => WellFormed(reporter.file)

---------------------------------------------------------------------------
(* Properties of test selection *)

IsVisualTest(test) == test.file = "tests/visual/critical-pages.spec.ts"

\* C17: every visual regression test is marked @visual @quarantine, so a run that
\* excludes @quarantine, as the nightly run does, executes none of them.
C17_VisualTestsQuarantined ==
    (SelectionOf(ci.trigger).grepInvert = "@quarantine" /\ ci.executed # {})
        => /\ \A i \in 1..Len(TestCatalogue) :
                 IsVisualTest(TestCatalogue[i])
                    => /\ HasTag(TestCatalogue[i], "@visual")
                       /\ HasTag(TestCatalogue[i], "@quarantine")
           /\ \A i \in ci.executed : ~IsVisualTest(TestCatalogue[i])

\* C18: no default CI selection (@smoke for pull requests and feature branches,
\* @regression for main, the full suite on develop, the nightly run) executes a test
\* tagged @quarantine.
C18_QuarantinedNeverSelected ==
    \A i \in ci.executed : ~HasTag(TestCatalogue[i], "@quarantine")

---------------------------------------------------------------------------
(* Properties of the accessibility helpers *)

IsCritical(v) == v.impact \in {"critical", "serious"}

\* The places of a list that hold a critical or serious violation, in order.
RECURSIVE CriticalPlaces(_, _)
CriticalPlaces(list, i) ==
    IF i > Len(list) THEN <<>>
    ELSE (IF IsCritical(list[i]) THEN <<i>> ELSE <<>>) \o CriticalPlaces(list, i + 1)

\* C19: getCriticalViolations returns exactly the violations of critical or serious
\* impact, in their original order, and assertNoAccessibilityViolations throws if and
\* only if that list is non-empty; moderate and minor violations alone never fail it.
C19_OnlyCriticalAndSeriousFail ==
    a11y.scanned =>
        LET places == CriticalPlaces(a11y.violations, 1)
        IN /\ Len(a11y.critical) = Len(places)
           /\ \A i \in 1..Len(places) : a11y.critical[i] = a11y.violations[places[i]]
           /\ a11y.op = "assertNoAccessibilityViolations"
                => /\ a11y.result = "threw" <=> places # <<>>
                   /\ (\A i \in 1..Len(a11y.violations) :
                            a11y.violations[i].impact \in {"moderate", "minor"})
                         => a11y.result = "returned"

C19_Witness ==
    /\ a11y.op = "assertNoAccessibilityViolations"
    /\ a11y.scanned
    /\ Len(a11y.violations) = 2
    /\ a11y.violations[1].impact = "moderate"
    /\ a11y.violations[2].impact = "serious"
    /\ a11y.critical = <<a11y.violations[2]>>
    /\ a11y.result = "threw"

---------------------------------------------------------------------------
(* Properties of UserBuilder *)

\* C20: UserBuilder.valid() without overrides yields a payload that passes
\* RegisterUserRequestSchema; UserBuilder.withInvalid(field) yields one that fails the
\* schema on exactly that field, and UsersApi.register rejects it without a request.
C20_BuilderMatchesSchema ==
    /\ (built.op = "valid" /\ built.overrides = {})
          => /\ RegisterUserRequestSchema(built.payload)
             /\ RegisterUserRequestIssues(built.payload) = {}
             /\ built.registered => built.sent # <<>>
    /\ built.op = "withInvalid"
          => /\ ~RegisterUserRequestSchema(built.payload)
             /\ RegisterUserRequestIssues(built.payload) = {built.field}
             /\ built.registered => built.outcome.kind = "threw" /\ built.sent = <<>>

C20_Witness ==
    /\ built.op = "withInvalid"
    /\ built.field = "password"
    /\ Prop(built.payload, "password") = Str(Text("12345"))
    /\ Prop(built.payload, "email") = Str(Text("test-1@example.com"))
    /\ built.registered
    /\ built.outcome = Threw(ZodError)

---------------------------------------------------------------------------
(* Properties of the login page object and the login UI test *)

\* C21: the assertion of 'should login successfully with valid credentials' fails
\* when, after the login attempt, the page is still on /notes/app/login and an error
\* message is visible.
C21_StillOnLoginWithErrorFails ==
    (ui.test = "valid credentials" /\ ui.verdict = "passed")
        => ~(ui.url = BaseURL \o LoginUrl /\ ui.errorShown)

\* The places of the calls login made on a locator.
UiPlaces(op, target) ==
    {i \in 1..Len(ui.events) : ui.events[i].op = op /\ ui.events[i].target = target}

\* The calls login makes when every one of them resolves, given what isVisible says.
LoginPageCalls(email, password, rememberMe, visible) ==
    <<UiEvent("fill", "emailInput", email, TRUE),
      UiEvent("fill", "passwordInput", password, TRUE)>>
        \o (IF rememberMe
            THEN <<UiEvent("isVisible", "rememberMeCheckbox", <<>>, TRUE)>>
            ELSE <<>>)
        \o (IF rememberMe /\ visible
            THEN <<UiEvent("click", "rememberMeCheckbox", <<>>, TRUE)>>
            ELSE <<>>)
        \o <<UiEvent("click", "loginButton", <<>>, TRUE)>>

\* C27: LoginPage.login fills the email field, then the password field, clicks the
\* remember-me checkbox only when rememberMe is true and the checkbox is visible, and
\* then clicks the submit button exactly once as its last step; if a fill fails,
\* submit is never clicked.
C27_LoginStepsInOrder ==
    /\ ui.login = "resolved"
         => ui.events = LoginPageCalls(ui.email, ui.password, ui.rememberMe, ui.checkboxVisible)
    /\ UiPlaces("click", "rememberMeCheckbox") # {}
         => ui.rememberMe /\ ui.checkboxVisible
    /\ \A i \in UiPlaces("click", "loginButton") :
         /\ i = Len(ui.events)
         /\ \E e \in UiPlaces("fill", "emailInput"), p \in UiPlaces("fill", "passwordInput") :
              e < p /\ p < i
    /\ Cardinality(UiPlaces("click", "loginButton")) <= 1
    /\ (\E i \in 1..Len(ui.events) : ui.events[i].op = "fill" /\ ~ui.events[i].ok)
         => UiPlaces("click", "loginButton") = {}

\* login was called with rememberMe true, found the checkbox visible, clicked it and
\* resolved with the click on submit.
C27_Witness ==
    /\ ui.login = "resolved"
    /\ UiPlaces("click", "rememberMeCheckbox") # {}
    /\ UiPlaces("click", "loginButton") = {Len(ui.events)}

---------------------------------------------------------------------------
(* Properties of the report's counts and times *)

\* Reading the written document back: its lines, the attributes of a start tag and
\* the numbers they hold.
SplitLines(doc) ==
    LET breaks == {i \in 1..Len(doc) : doc[i] = "\n"}
        n == Cardinality(breaks)
        at == [m \in 1..n |-> CHOOSE i \in breaks : Cardinality({h \in breaks : h < i}) = m - 1]
    IN [m \in 1..(n + 1) |->
           SubSeq(doc, IF m = 1 THEN 1 ELSE at[m - 1] + 1,
                       IF m = n + 1 THEN Len(doc) ELSE at[m] - 1)]

IsElement(line, tag) == StartsWith(line, 1, Text(tag))

AttributeOf(line, name) ==
    LET key == <<" ">> \o Text(name) \o Text("=\"")
        from == IndexOf(line, 1, key) + Len(key)
    IN SubSeq(line, from, IndexOf(line, from, <<"\"">>) - 1)

DigitValue(c) == CHOOSE d \in 0..9 : DigitChar(d) = c

RECURSIVE ParseDecimal(_)
ParseDecimal(text) ==
    IF text = <<>> THEN 0
    ELSE 10 * ParseDecimal(SubSeq(text, 1, Len(text) - 1)) + DigitValue(text[Len(text)])

CountOfAttribute(line, name) == ParseDecimal(AttributeOf(line, name))

\* A time attribute `s.mmm`, in thousandths of its unit.
Thousandths(text) ==
    LET dot == IndexOf(text, 1, <<".">>)
    IN 1000 * ParseDecimal(SubSeq(text, 1, dot - 1))
           + ParseDecimal(SubSeq(text, dot + 1, Len(text)))

\* The lines that open a testsuite, the testcases inside one, and the children of a
\* testcase.
SuiteStarts(lines) == {i \in 1..Len(lines) : IsElement(lines[i], "<testsuite ")}
ClosingAfter(lines, i, tag) ==
    LET closings == {j \in (i + 1)..Len(lines) : lines[j] = Text(tag)}
    IN CHOOSE j \in closings : \A h \in closings : j <= h
CasesIn(lines, i) ==
    {j \in (i + 1)..(ClosingAfter(lines, i, "</testsuite>") - 1) :
        IsElement(lines[j], "<testcase ")}
HasChild(lines, j, tag) ==
    \E m \in (j + 1)..(ClosingAfter(lines, j, "</testcase>") - 1) : IsElement(lines[m], tag)
RootLine(lines) == lines[CHOOSE i \in 1..Len(lines) : IsElement(lines[i], "<testsuites ")]

\* The testcases written for the test k of the suite s: those named like the test
\* inside the testsuite named like the suite.
CasesOf(lines, s, k) ==
    {j \in UNION {CasesIn(lines, i) : i \in {i \in SuiteStarts(lines) :
                    AttributeOf(lines[i], "name") = reporter.suites[s].title}} :
        AttributeOf(lines[j], "name") = reporter.suites[s].tests[k].title}

\* The tests that received a result.
TestsWithResults ==
    {sk \in UNION {{<<s, k>> : k \in 1..Len(reporter.suites[s].tests)} :
                        s \in 1..Len(reporter.suites)} :
        Len(reporter.results[sk[1]][sk[2]]) > 0}

\* C22: for every testsuite `tests` equals the number of its testcase elements,
\* `failures` the number of testcases with a failure child, `skipped` the number with a
\* skipped child, and failures + skipped <= tests; the attributes of testsuites are
\* the sums over the testsuite elements written, and every test that received at
\* least one result appears as exactly one testcase.
C22_CountsMatchElements ==
    reporter.written =>
        LET lines == SplitLines(reporter.file)
            starts == SuiteStarts(lines)
        IN /\ \A i \in starts :
                LET cases == CasesIn(lines, i)
                    tests == CountOfAttribute(lines[i], "tests")
                    failures == CountOfAttribute(lines[i], "failures")
                    skipped == CountOfAttribute(lines[i], "skipped")
                IN /\ tests = Cardinality(cases)
                   /\ failures = Cardinality({j \in cases : HasChild(lines, j, "  <failure ")})
                   /\ skipped = Cardinality({j \in cases : HasChild(lines, j, "  <skipped/>")})
                   /\ failures + skipped <= tests
           /\ \A name \in {"tests", "failures", "skipped"} :
                CountOfAttribute(RootLine(lines), name)
                    = SumOver([i \in starts |-> CountOfAttribute(lines[i], name)], starts)
           /\ \A s \in 1..Len(reporter.suites) : \A k \in 1..Len(reporter.suites[s].tests) :
                Cardinality(CasesOf(lines, s, k))
                    = IF <<s, k>> \in TestsWithResults THEN 1 ELSE 0

\* A report was written with a testsuite of two testcases, one failed and one skipped.
C22_Witness ==
    /\ reporter.written
    /\ LET lines == SplitLines(reporter.file)
       IN \E i \in SuiteStarts(lines) :
            /\ CountOfAttribute(lines[i], "tests") = 2
            /\ CountOfAttribute(lines[i], "failures") = 1
            /\ CountOfAttribute(lines[i], "skipped") = 1

\* The results with the earlier attempts of every test left out.
LastResultsOnly ==
    [s \in 1..Len(reporter.results) |->
        [k \in 1..Len(reporter.results[s]) |->
            IF Len(reporter.results[s][k]) > 0
            THEN <<reporter.results[s][k][Len(reporter.results[s][k])]>>
            ELSE <<>>]]

\* C23: a test that was run several times has one testcase, built from the result of
\* the last onTestEnd received for it: failed then passed is reported as passed and
\* adds nothing to `failures`, and the earlier attempts change neither the counts nor
\* the time.
C23_LastAttemptReported ==
    reporter.written =>
        LET lines == SplitLines(reporter.file)
        IN /\ reporter.file
                 = GenerateJUnitXML(reporter.rootDir, reporter.suites, LastResultsOnly)
           /\ \A sk \in TestsWithResults :
                LET results == reporter.results[sk[1]][sk[2]]
                    final == results[Len(results)]
                    cases == CasesOf(lines, sk[1], sk[2])
                IN /\ Cardinality(cases) = 1
                   /\ \A j \in cases :
                        /\ HasChild(lines, j, "  <failure ")
                              <=> final.status \in {"failed", "timedOut"}
                        /\ HasChild(lines, j, "  <skipped/>") <=> final.status = "skipped"
                        /\ Thousandths(AttributeOf(lines[j], "time")) = final.duration
           /\ \A i \in SuiteStarts(lines) :
                CountOfAttribute(lines[i], "failures")
                    = Cardinality({sk \in TestsWithResults :
                           /\ reporter.suites[sk[1]].title = AttributeOf(lines[i], "name")
                           /\ LET results == reporter.results[sk[1]][sk[2]]
                              IN results[Len(results)].status \in {"failed", "timedOut"}})

\* A report was written after a test failed and then passed on retry.
C23_Witness ==
    /\ reporter.written
    /\ \E sk \in TestsWithResults :
         LET results == reporter.results[sk[1]][sk[2]]
             lines == SplitLines(reporter.file)
         IN /\ Len(results) >= 2
            /\ results[1].status = "failed"
            /\ results[Len(results)].status = "passed"
            /\ \A j \in CasesOf(lines, sk[1], sk[2]) : ~HasChild(lines, j, "  <failure ")

\* C24: the `time` of each testsuite and of testsuites is in the unit of the `time`
\* of the testcase elements (seconds) and equals the sum of the times of the
\* testcases it contains.
C24_SuiteTimeIsSumInSeconds ==
    reporter.written =>
        LET lines == SplitLines(reporter.file)
            starts == SuiteStarts(lines)
            caseTimes == [i \in starts |->
                            LET cases == CasesIn(lines, i)
                            IN SumOver([j \in cases |->
                                           Thousandths(AttributeOf(lines[j], "time"))],
                                       cases)]
        IN /\ \A i \in starts :
                Thousandths(AttributeOf(lines[i], "time")) = caseTimes[i]
           /\ Thousandths(AttributeOf(RootLine(lines), "time")) = SumOver(caseTimes, starts)

=============================================================================
